---------------------------- MODULE Spec2Model ----------------------------
(***************************************************************************)
(* Skill discovery (tui/src/skills_discovery.rs): load_skills walks every  *)
(* scan root breadth-first, parses each SKILL.md, then deduplicates by     *)
(* canonical path and sorts.                                               *)
(*                                                                         *)
(* Conventions.  A canonical directory is a positive integer; directories  *)
(* are numbered in canonical-path order, so PathBuf comparison of two      *)
(* SKILL.md paths is comparison of the ids of their directories.  An       *)
(* Option is a sequence of length at most one (<<>> is None, <<x>> is      *)
(* Some(x)).  Strings are drawn from a finite vocabulary whose byte order  *)
(* is StrOrder.                                                            *)
(***************************************************************************)
EXTENDS Integers, Sequences, FiniteSets, TLC

VARIABLES
    fs,                      \* the filesystem and environment of this call
    run,                     \* 1: first call of load_skills, 2: second call
    roots,                   \* load_skills: `roots`
    rootIdx,                 \* load_skills: position of `for root in roots`
    pc,                      \* control point inside load_skills
    root_dir,                \* discover_skills_under_root: `root_dir`
    queue,                   \* discover_skills_under_root: `queue`
    visited_dirs,            \* discover_skills_under_root: `visited_dirs`
    truncated_by_dir_limit,  \* discover_skills_under_root: the flag
    dir,                     \* the directory popped from the queue
    depth,                   \* its depth
    ei,                      \* position of `for entry in entries.flatten()`
    out,                     \* load_skills: `out`
    log,                     \* tracing::warn! records, in order
    hist,                    \* history of the current root walk (observer)
    origin,                  \* origin[i]: index of the root that pushed out[i]
    raw,                     \* `out` as it was before retain/sort
    first,                   \* what the first call returned and on which fs
    fm,                      \* a call of parse_skill_file on its own: input and output
    upd,                     \* a call into updates.rs on its own: input and output
    version_file,            \* the version cache file, as read_version_info reads it
    tasks,                   \* check_for_update and dismiss_version: position and locals
    ev                       \* a call of is_retryable_stream_error: input and output

vars == <<fs, run, roots, rootIdx, pc, root_dir, queue, visited_dirs,
          truncated_by_dir_limit, dir, depth, ei, out, log, hist, origin,
          raw, first, fm, upd, version_file, tasks, ev>>

None == <<>>
Some(x) == <<x>>

\* The one element of a singleton set; {F(x) : x \in {e}} names the value
\* of e once, as `let x = e` does.
TheOne(S) == CHOOSE x \in S : TRUE

\* HashSet::insert, S \cup {x}: the set of the first x - 1 ids with x added is
\* written as the interval 1..x.
SetInsert(S, x) == IF S = 1..(x - 1) THEN 1..x ELSE S \cup {x}

MAX_SCAN_DEPTH == 6
MAX_SKILLS_DIRS_PER_ROOT == 2000

SKILL_FILENAME == "SKILL.md"
SYSTEM_SKILLS_DIR_NAME == ".system"

Scopes == {"Repo", "User", "System", "Admin"}

(***************************************************************************)
(* Strings.                                                                *)
(***************************************************************************)

\* The string values that occur, in byte order (str::cmp).
StrOrder == <<"", " ", " alpha ", "A Tool", "Does things", "Short", "alpha", "beta">>

StrRank(s) == CHOOSE i \in 1..Len(StrOrder) : StrOrder[i] = s

\* Ordering::Less / Equal / Greater as -1 / 0 / 1.
CmpInt(a, b) == IF a < b THEN -1 ELSE IF a = b THEN 0 ELSE 1

StrCmp(a, b) == CmpInt(StrRank(a), StrRank(b))

\* str::trim on the vocabulary.
Trim(s) ==
    CASE s = " " -> ""
      [] s = " alpha " -> "alpha"
      [] OTHER -> s

\* Names of directory entries that start with '.'.
DotNames == {".system", ".hidden", ".git"}

\* No name counts as a dot name.
StartsWithDot_Never(name) == FALSE

StartsWithDot(name) == name \in DotNames

(***************************************************************************)
(* File contents.  A text is the sequence of its pieces between "\n"; a    *)
(* piece is [text, cr]: its characters up to its trailing carriage returns *)
(* and the number of those.  nl says whether the last piece ends in "\n".  *)
(***************************************************************************)

L(text) == [text |-> text, cr |-> 0]
LCR(text, n) == [text |-> text, cr |-> n]

Text(pieces, nl) == [pieces |-> pieces, nl |-> nl]

\* str::lines: a piece that ended in "\n" loses one trailing "\r"; the last
\* piece, when no "\n" ends it, keeps its carriage returns.
Lines(contents) ==
    [i \in 1..Len(contents.pieces) |->
        LET p == contents.pieces[i]
            terminated == i < Len(contents.pieces) \/ contents.nl
        IN  IF terminated /\ p.cr > 0 THEN [p EXCEPT !.cr = p.cr - 1] ELSE p]

\* str::trim_end_matches('\r')
TrimEndCR(line) == line.text


(***************************************************************************)
(* extract_frontmatter                                                     *)
(***************************************************************************)

\* The `for line in lines` loop from line i on; yaml is the String built so
\* far, as the sequence of its "\n"-terminated lines.
RECURSIVE FrontmatterLoop(_, _, _)
FrontmatterLoop(lines, i, yaml) ==
    IF i > Len(lines) THEN None
    ELSE LET trimmed == TrimEndCR(lines[i])
         IN  IF trimmed = "---" THEN Some(yaml)
             ELSE FrontmatterLoop(lines, i + 1, Append(yaml, trimmed))

ExtractFrontmatter_EofCloses(contents) ==
    LET lines == Lines(contents)
    IN  IF Len(lines) = 0 THEN None
        ELSE IF TrimEndCR(lines[1]) # "---" THEN None
        ELSE LET r == FrontmatterLoop(lines, 2, <<>>)
             IN  IF r = None
                 THEN Some([i \in 1..(Len(lines) - 1) |-> TrimEndCR(lines[i + 1])])
                 ELSE r

ExtractFrontmatter(contents) ==
    LET lines == Lines(contents)
    IN  IF Len(lines) = 0 THEN None
        ELSE IF TrimEndCR(lines[1]) # "---" THEN None
        ELSE FrontmatterLoop(lines, 2, <<>>)

(***************************************************************************)
(* serde_yaml::from_str::<SkillFrontmatter>, on the lines that occur.      *)
(***************************************************************************)

\* What one line of a front-matter block says.
YamlLine(text) ==
    CASE text = "name: alpha" -> [key |-> "name", val |-> "alpha"]
      [] text = "name: beta" -> [key |-> "name", val |-> "beta"]
      [] text = "name: ' alpha '" -> [key |-> "name", val |-> " alpha "]
      [] text = "name: ' '" -> [key |-> "name", val |-> " "]
      [] text = "description: Does things" -> [key |-> "description", val |-> "Does things"]
      [] text = "description: ' '" -> [key |-> "description", val |-> " "]
      [] text = "metadata:" -> [key |-> "metadata", val |-> ""]
      [] text = "  short-description: Short" -> [key |-> "short-description", val |-> "Short"]
      [] text = "  short-description: ' '" -> [key |-> "short-description", val |-> " "]
      [] text = "" -> [key |-> "blank", val |-> ""]
      [] text = "# Body" -> [key |-> "blank", val |-> ""]
      [] OTHER -> [key |-> "invalid", val |-> ""]

\* Err(InvalidYaml) is [ok |-> FALSE]: a line that is no YAML, a key given
\* twice, a nested key outside `metadata:`, or a missing required field.
ParseFrontmatterYaml(yaml) ==
    LET at(k) == {i \in 1..Len(yaml) : YamlLine(yaml[i]).key = k}
        val(k) == YamlLine(yaml[CHOOSE i \in at(k) : TRUE]).val
        wellFormed ==
            /\ at("invalid") = {}
            /\ \A k \in {"name", "description", "metadata", "short-description"} :
                    Cardinality(at(k)) <= 1
            /\ \A i \in at("short-description") : \E j \in at("metadata") : j < i
            /\ at("name") # {}
            /\ at("description") # {}
    IN  IF ~wellFormed THEN [ok |-> FALSE]
        ELSE [ok |-> TRUE,
              name |-> val("name"),
              description |-> val("description"),
              short_description |->
                  IF at("short-description") = {} THEN None
                  ELSE Some(val("short-description"))]

\* .as_deref().map(str::trim) without the filter.
TrimNonEmpty_NoFilter(opt) ==
    IF opt = None THEN None ELSE Some(Trim(opt[1]))

\* .as_deref().map(str::trim).filter(|value| !value.is_empty())
TrimNonEmpty(opt) ==
    IF opt = None THEN None
    ELSE IF Trim(opt[1]) = "" THEN None ELSE Some(Trim(opt[1]))

(***************************************************************************)
(* load_skill_interface: the state of <skill-dir>/agents/openai.yaml       *)
(***************************************************************************)

OverlayAbsent == [state |-> "absent"]
OverlayUnreadable == [state |-> "unreadable"]
OverlayInvalid == [state |-> "invalid"]
OverlayNoInterface == [state |-> "valid", interface |-> None]
OverlayWith(dn, sd) ==
    [state |-> "valid",
     interface |-> Some([display_name |-> dn, short_description |-> sd])]

LoadSkillInterface(overlay) ==
    IF overlay.state # "valid" THEN None
    ELSE IF overlay.interface = None THEN None
    ELSE LET interface == overlay.interface[1]
             display_name == TrimNonEmpty(interface.display_name)
             short_description == TrimNonEmpty(interface.short_description)
         IN  IF display_name = None /\ short_description = None THEN None
             ELSE Some([display_name |-> display_name,
                        short_description |-> short_description])

(***************************************************************************)
(* SkillMetadata::display_name, SkillMetadata::display_description         *)
(***************************************************************************)

display_name(skill) ==
    IF skill.interface # None /\ skill.interface[1].display_name # None
    THEN skill.interface[1].display_name[1]
    ELSE skill.name

\* display_description that looks at the front-matter short description
\* before the overlay's.
display_description_FrontmatterFirst(skill) ==
    IF skill.short_description # None
    THEN skill.short_description[1]
    ELSE IF skill.interface # None /\ skill.interface[1].short_description # None
    THEN skill.interface[1].short_description[1]
    ELSE skill.description

display_description(skill) ==
    IF skill.interface # None /\ skill.interface[1].short_description # None
    THEN skill.interface[1].short_description[1]
    ELSE IF skill.short_description # None
    THEN skill.short_description[1]
    ELSE skill.description

(***************************************************************************)
(* parse_skill_file.  file is [readable, contents, overlay]; path is the   *)
(* canonical directory that holds the file.                                *)
(***************************************************************************)

\* parse_skill_file that fails when openai.yaml cannot be read or parsed.
ParseSkillFileParsed_OverlayRequired(parsed, file, path, scope) ==
    IF ~parsed.ok THEN [ok |-> FALSE, err |-> "InvalidYaml", loaded |-> FALSE]
    ELSE IF Trim(parsed.name) = ""
    THEN [ok |-> FALSE, err |-> "MissingField(name)", loaded |-> FALSE]
    ELSE IF Trim(parsed.description) = ""
    THEN [ok |-> FALSE, err |-> "MissingField(description)", loaded |-> FALSE]
    ELSE IF file.overlay.state = "unreadable"
    THEN [ok |-> FALSE, err |-> "Read", loaded |-> TRUE]
    ELSE IF file.overlay.state = "invalid"
    THEN [ok |-> FALSE, err |-> "InvalidYaml", loaded |-> TRUE]
    ELSE [ok |-> TRUE, loaded |-> TRUE,
          skill |->
              [name |-> Trim(parsed.name),
               description |-> Trim(parsed.description),
               short_description |-> TrimNonEmpty(parsed.short_description),
               interface |-> LoadSkillInterface(file.overlay),
               path |-> path,
               scope |-> scope]]

\* parse_skill_file that looks at the description before the name.
ParseSkillFileParsed_DescriptionFirst(parsed, file, path, scope) ==
    IF ~parsed.ok THEN [ok |-> FALSE, err |-> "InvalidYaml", loaded |-> FALSE]
    ELSE IF Trim(parsed.description) = ""
    THEN [ok |-> FALSE, err |-> "MissingField(description)", loaded |-> FALSE]
    ELSE IF Trim(parsed.name) = ""
    THEN [ok |-> FALSE, err |-> "MissingField(name)", loaded |-> FALSE]
    ELSE [ok |-> TRUE, loaded |-> TRUE,
          skill |->
              [name |-> Trim(parsed.name),
               description |-> Trim(parsed.description),
               short_description |-> TrimNonEmpty(parsed.short_description),
               interface |-> LoadSkillInterface(file.overlay),
               path |-> path,
               scope |-> scope]]

\* parse_skill_file from `let parsed` on (lines 343-369); loaded: the call
\* of load_skill_interface (line 354) was reached.
ParseSkillFileParsed(parsed, file, path, scope) ==
    IF ~parsed.ok THEN [ok |-> FALSE, err |-> "InvalidYaml", loaded |-> FALSE]
    ELSE IF Trim(parsed.name) = ""
    THEN [ok |-> FALSE, err |-> "MissingField(name)", loaded |-> FALSE]
    ELSE IF Trim(parsed.description) = ""
    THEN [ok |-> FALSE, err |-> "MissingField(description)", loaded |-> FALSE]
    ELSE [ok |-> TRUE, loaded |-> TRUE,
          skill |->
              [name |-> Trim(parsed.name),
               description |-> Trim(parsed.description),
               short_description |-> TrimNonEmpty(parsed.short_description),
               interface |-> LoadSkillInterface(file.overlay),
               path |-> path,
               scope |-> scope]]

\* parse_skill_file from `let frontmatter` on (lines 341-369).
ParseSkillFileContents(frontmatter, file, path, scope) ==
    IF frontmatter = None THEN [ok |-> FALSE, err |-> "MissingFrontmatter", loaded |-> FALSE]
    ELSE TheOne({ParseSkillFileParsed(parsed, file, path, scope) :
                    parsed \in {ParseFrontmatterYaml(frontmatter[1])}})

ParseSkillFile(file, path, scope) ==
    IF ~file.readable THEN [ok |-> FALSE, err |-> "Read", loaded |-> FALSE]
    ELSE TheOne({ParseSkillFileContents(frontmatter, file, path, scope) :
                    frontmatter \in {ExtractFrontmatter(file.contents)}})

(***************************************************************************)
(* load_skills: retain (dedup by path) and sort_by                         *)
(***************************************************************************)

\* Ranks in the order the roots are scanned (System before User).
scope_rank_ScanOrder(scope) ==
    CASE scope = "Repo" -> 0
      [] scope = "System" -> 1
      [] scope = "User" -> 2
      [] scope = "Admin" -> 3

scope_rank(scope) ==
    CASE scope = "Repo" -> 0
      [] scope = "User" -> 1
      [] scope = "System" -> 2
      [] scope = "Admin" -> 3

\* A comparator without the path: scope rank, then name.
SkillCmp_ScopeAndName(a, b) ==
    IF CmpInt(scope_rank(a.scope), scope_rank(b.scope)) # 0
    THEN CmpInt(scope_rank(a.scope), scope_rank(b.scope))
    ELSE StrCmp(a.name, b.name)

\* The comparator of out.sort_by: scope rank, then name, then path.
SkillCmp(a, b) ==
    IF CmpInt(scope_rank(a.scope), scope_rank(b.scope)) # 0
    THEN CmpInt(scope_rank(a.scope), scope_rank(b.scope))
    ELSE IF StrCmp(a.name, b.name) # 0
    THEN StrCmp(a.name, b.name)
    ELSE CmpInt(a.path, b.path)

\* A retain that keeps the last record of every path.
RetainLastByPath(skills) ==
    LET F[i \in 0..Len(skills)] ==
            IF i = 0 THEN <<>>
            ELSE IF \A j \in (i + 1)..Len(skills) : skills[j].path # skills[i].path
            THEN Append(F[i - 1], skills[i])
            ELSE F[i - 1]
    IN  F[Len(skills)]

\* A retain that keeps every record.
RetainAll(skills) == skills

\* out.retain(|skill| seen_paths.insert(skill.path.clone()))
RetainFirstByPath(skills) ==
    LET Step(seen, skill) ==
            [seen_paths |-> seen.seen_paths \cup {skill.path},
             kept |-> IF skill.path \notin seen.seen_paths
                      THEN Append(seen.kept, skill) ELSE seen.kept]
        F[i \in 0..Len(skills)] ==
            IF i = 0 THEN [seen_paths |-> {}, kept |-> <<>>]
            ELSE TheOne({Step(seen, skills[i]) : seen \in {F[i - 1]}})
    IN  F[Len(skills)].kept

\* slice::sort_by is stable: an element goes after every element that does
\* not compare greater than it.
SortBySkillCmp(skills) ==
    LET Insert(sorted, x) ==
            LET k == Cardinality({j \in 1..Len(sorted) : SkillCmp(sorted[j], x) <= 0})
            IN  SubSeq(sorted, 1, k) \o <<x>> \o SubSeq(sorted, k + 1, Len(sorted))
        F[i \in 0..Len(skills)] ==
            IF i = 0 THEN <<>>
            ELSE TheOne({Insert(sorted, skills[i]) : sorted \in {F[i - 1]}})
    IN  F[Len(skills)]

(***************************************************************************)
(* skill_roots.  env is what the call sees outside the roots: for every    *)
(* ancestor of cwd (cwd first) whether it holds .git and what              *)
(* <ancestor>/.codex/skills is; the codex home, if any, with what          *)
(* <home>/skills/.system and <home>/skills are; what /etc/codex/skills is. *)
(* A path is [kind |-> "dir", id |-> d] (it resolves to directory d),      *)
(* [kind |-> "file"] or [kind |-> "missing"].                              *)
(***************************************************************************)

PDir(d) == [kind |-> "dir", id |-> d]
PFile == [kind |-> "file", id |-> 0]
PMissing == [kind |-> "missing", id |-> 0]

SkillRoot(path, scope, follow_symlinks) ==
    [path |-> path, scope |-> scope, follow_symlinks |-> follow_symlinks]

\* find_repo_root: the index of the first ancestor that holds .git, or 0.
FindRepoRoot(ancestors) ==
    IF \E i \in 1..Len(ancestors) : ancestors[i].git
    THEN CHOOSE i \in 1..Len(ancestors) :
            ancestors[i].git /\ \A j \in 1..(i - 1) : ~ancestors[j].git
    ELSE 0

\* repo_dirs_between that stops below the repository root.
RepoDirsBetween_BelowRoot(ancestors) ==
    LET repo_root == FindRepoRoot(ancestors)
    IN  IF repo_root = 0 THEN ancestors ELSE SubSeq(ancestors, 1, repo_root - 1)

\* repo_dirs_between: the ancestors up to and including the repository root.
RepoDirsBetween(ancestors) ==
    LET repo_root == FindRepoRoot(ancestors)
    IN  IF repo_root = 0 THEN ancestors ELSE SubSeq(ancestors, 1, repo_root)

SkillRoots(env) ==
    LET dirs == RepoDirsBetween(env.ancestors)
        repo == SelectSeq([i \in 1..Len(dirs) |-> dirs[i].skills],
                          LAMBDA p : p.kind = "dir")
        repoRoots == [i \in 1..Len(repo) |-> SkillRoot(repo[i], "Repo", TRUE)]
        homeRoots ==
            IF env.home = None THEN <<>>
            ELSE <<SkillRoot(env.home[1].system, "System", FALSE),
                   SkillRoot(env.home[1].user, "User", TRUE)>>
        adminRoots ==
            IF env.unix THEN <<SkillRoot(env.admin, "Admin", TRUE)>> ELSE <<>>
    IN  repoRoots \o homeRoots \o adminRoots

(***************************************************************************)
(* enqueue_dir                                                             *)
(***************************************************************************)

\* enqueue_dir that has no depth cut-off and takes for visited only the
\* paths that are waiting in the queue.
EnqueueDir_QueuedOnly(q, visited, truncated, path, d) ==
    IF \E i \in 1..Len(q) : q[i][1] = path
    THEN [queue |-> q, visited |-> visited, truncated |-> truncated]
    ELSE [queue |-> Append(q, <<path, 0>>), visited |-> SetInsert(visited, path),
          truncated |-> truncated]

\* enqueue_dir that pushes a visited path again.
EnqueueDir_NoVisitedCheck(q, visited, truncated, path, d) ==
    IF d > MAX_SCAN_DEPTH
    THEN [queue |-> q, visited |-> visited, truncated |-> truncated]
    ELSE IF Cardinality(visited) >= MAX_SKILLS_DIRS_PER_ROOT
    THEN [queue |-> q, visited |-> visited, truncated |-> TRUE]
    ELSE [queue |-> Append(q, <<path, d>>), visited |-> SetInsert(visited, path),
          truncated |-> truncated]

\* enqueue_dir that cuts off one level early.
EnqueueDir_DepthOffByOne(q, visited, truncated, path, d) ==
    IF d >= MAX_SCAN_DEPTH
    THEN [queue |-> q, visited |-> visited, truncated |-> truncated]
    ELSE IF Cardinality(visited) >= MAX_SKILLS_DIRS_PER_ROOT
    THEN [queue |-> q, visited |-> visited, truncated |-> TRUE]
    ELSE IF path \notin visited
    THEN [queue |-> Append(q, <<path, d>>), visited |-> SetInsert(visited, path),
          truncated |-> truncated]
    ELSE [queue |-> q, visited |-> visited, truncated |-> truncated]

\* enqueue_dir that marks the scan truncated on a depth cut-off too.
EnqueueDir_TruncatedOnDepth(q, visited, truncated, path, d) ==
    IF d > MAX_SCAN_DEPTH
    THEN [queue |-> q, visited |-> visited, truncated |-> TRUE]
    ELSE IF Cardinality(visited) >= MAX_SKILLS_DIRS_PER_ROOT
    THEN [queue |-> q, visited |-> visited, truncated |-> TRUE]
    ELSE IF path \notin visited
    THEN [queue |-> Append(q, <<path, d>>), visited |-> SetInsert(visited, path),
          truncated |-> truncated]
    ELSE [queue |-> q, visited |-> visited, truncated |-> truncated]

\* enqueue_dir with `>` for `>=` in the visit cap.
EnqueueDir_CapOffByOne(q, visited, truncated, path, d) ==
    IF d > MAX_SCAN_DEPTH
    THEN [queue |-> q, visited |-> visited, truncated |-> truncated]
    ELSE IF Cardinality(visited) > MAX_SKILLS_DIRS_PER_ROOT
    THEN [queue |-> q, visited |-> visited, truncated |-> TRUE]
    ELSE IF path \notin visited
    THEN [queue |-> Append(q, <<path, d>>), visited |-> SetInsert(visited, path),
          truncated |-> truncated]
    ELSE [queue |-> q, visited |-> visited, truncated |-> truncated]

\* enqueue_dir that puts the directory at the front of the queue.
EnqueueDir_PushFront(q, visited, truncated, path, d) ==
    IF d > MAX_SCAN_DEPTH
    THEN [queue |-> q, visited |-> visited, truncated |-> truncated]
    ELSE IF Cardinality(visited) >= MAX_SKILLS_DIRS_PER_ROOT
    THEN [queue |-> q, visited |-> visited, truncated |-> TRUE]
    ELSE IF path \notin visited
    THEN [queue |-> <<<<path, d>>>> \o q, visited |-> SetInsert(visited, path),
          truncated |-> truncated]
    ELSE [queue |-> q, visited |-> visited, truncated |-> truncated]

\* enqueue_dir that gives up the walk at the visit cap: the queue is cleared.
EnqueueDir_ClearAtCap(q, visited, truncated, path, d) ==
    IF d > MAX_SCAN_DEPTH
    THEN [queue |-> q, visited |-> visited, truncated |-> truncated]
    ELSE IF Cardinality(visited) >= MAX_SKILLS_DIRS_PER_ROOT
    THEN [queue |-> <<>>, visited |-> visited, truncated |-> TRUE]
    ELSE IF path \notin visited
    THEN [queue |-> Append(q, <<path, d>>), visited |-> SetInsert(visited, path),
          truncated |-> truncated]
    ELSE [queue |-> q, visited |-> visited, truncated |-> truncated]

EnqueueDir(q, visited, truncated, path, d) ==
    IF d > MAX_SCAN_DEPTH
    THEN [queue |-> q, visited |-> visited, truncated |-> truncated]
    ELSE IF Cardinality(visited) >= MAX_SKILLS_DIRS_PER_ROOT
    THEN [queue |-> q, visited |-> visited, truncated |-> TRUE]
    ELSE IF path \notin visited
    THEN [queue |-> Append(q, <<path, d>>), visited |-> SetInsert(visited, path),
          truncated |-> truncated]
    ELSE [queue |-> q, visited |-> visited, truncated |-> truncated]


(***************************************************************************)
(* The filesystem.  A directory entry is [name, kind, to, target, file]:   *)
(* kind is what DirEntry::file_type says ("dir", "file", "symlink",        *)
(* "other", or "unknown" when file_type fails); for a symlink, `to` is     *)
(* what std::fs::metadata finds behind it ("dir", "file" or "broken");     *)
(* target is the canonical directory of a "dir" entry or of a symlink to a *)
(* directory; file is the content of a regular file.                       *)
(***************************************************************************)

NoFile == [readable |-> FALSE, contents |-> Text(<<>>, FALSE), overlay |-> OverlayAbsent]

DirE(name, d) == [name |-> name, kind |-> "dir", to |-> "", target |-> d, file |-> NoFile]
LinkE(name, to, d) ==
    [name |-> name, kind |-> "symlink", to |-> to, target |-> d, file |-> NoFile]
\* A symlink to a regular file with these contents.
LinkF(name, file) ==
    [name |-> name, kind |-> "symlink", to |-> "file", target |-> 0, file |-> file]
FileE(name, file) == [name |-> name, kind |-> "file", to |-> "", target |-> 0, file |-> file]
OtherE(name, kind) == [name |-> name, kind |-> kind, to |-> "", target |-> 0, file |-> NoFile]

File(contents, overlay) == [readable |-> TRUE, contents |-> contents, overlay |-> overlay]

FrontText(nameLine, descLine) ==
    Text(<<L("---"), L(nameLine), L(descLine), L("---"), L(""), L("# Body")>>, TRUE)

FileOk(nameLine) == File(FrontText(nameLine, "description: Does things"), OverlayAbsent)

\* One file for every way parse_skill_file fails.
FileUnreadable == [NoFile EXCEPT !.contents = FrontText("name: alpha", "description: Does things")]
FileNoFrontmatter == File(Text(<<L("# Body")>>, TRUE), OverlayAbsent)
FileInvalidYaml == File(Text(<<L("---"), L("{ not yaml"), L("---")>>, TRUE), OverlayAbsent)
FileNoName == File(FrontText("name: ' '", "description: Does things"), OverlayAbsent)
FileNoDescription == File(FrontText("name: alpha", "description: ' '"), OverlayAbsent)

FailingFiles ==
    {FileUnreadable, FileNoFrontmatter, FileInvalidYaml, FileNoName, FileNoDescription}

\* A wide filesystem, given by its shape f = [kind |-> "wide", width, dirs,
\* tail]: directories 1..f.dirs, numbered level by level.  Directory 1
\* holds a dot file, a SKILL.md, a symlink to directory 2 and the (at most
\* f.width) directories 2, 3, ...; a directory d > 1 holds directory
\* d + f.width when there is one, directories 2, 3 and f.dirs - 3 hold a
\* SKILL.md too,
\* and (f.tail) the last directory holds a symlink to directory 2.  The
\* directory after the last is <home>/skills/.system.
WideSystemDir(f) == f.dirs + 1

WideRootKids(f) == IF f.dirs - 1 < f.width THEN f.dirs - 1 ELSE f.width

WideHasSub(f, d) == d + f.width <= f.dirs

WideNumEntries(f, d) ==
    CASE d = 1 -> 3 + WideRootKids(f)
      [] d = WideSystemDir(f) -> 2
      [] OTHER -> (IF d \in {2, 3, f.dirs - 3} THEN 1 ELSE 0)
                  + (IF WideHasSub(f, d) THEN 1 ELSE 0)
                  + (IF f.tail /\ d = f.dirs THEN 1 ELSE 0)

WideEntryAt(f, d, i) ==
    CASE d = 1 /\ i = 1 -> FileE(".hidden", FileOk("name: alpha"))
      [] d = 1 /\ i = 2 -> FileE(SKILL_FILENAME, FileOk("name: alpha"))
      [] d = 1 /\ i = 3 -> LinkE("first", "dir", 2)
      [] d = 1 /\ i > 3 -> DirE("d", i - 2)
      [] d = WideSystemDir(f) /\ i = 1 -> LinkE("first", "dir", 2)
      [] d = WideSystemDir(f) /\ i = 2 -> FileE(SKILL_FILENAME, FileOk("name: alpha"))
      [] d = 2 /\ i = 1 -> FileE(SKILL_FILENAME, FileOk("name: beta"))
      [] d = 3 /\ i = 1 -> FileE(SKILL_FILENAME, FileInvalidYaml)
      [] d = f.dirs - 3 /\ i = 1 -> FileE(SKILL_FILENAME, FileOk("name: alpha"))
      [] f.tail /\ d = f.dirs /\ i = WideNumEntries(f, d) -> LinkE("last", "dir", 2)
      [] OTHER -> DirE("sub", d + f.width)

\* std::fs::read_dir(dir): the number of entries, the i-th entry in the
\* order the filesystem yields them, and whether the call succeeds.
NumEntries(f, d) == IF f.kind = "wide" THEN WideNumEntries(f, d) ELSE Len(f.list[d])

EntryAt(f, d, i) == IF f.kind = "wide" THEN WideEntryAt(f, d, i) ELSE f.list[d][i]

ReadDirOk(f, d) == d \notin f.unreadable


(***************************************************************************)
(* load_skills as a state machine.  pc is "root" at the head of            *)
(* `for root in roots`, "pop" at the head of the `while let` loop of       *)
(* discover_skills_under_root, "entry" at the head of its `for entry`      *)
(* loop, and "done" when load_skills has returned `out`.                   *)
(***************************************************************************)

NoHist ==
    [root |-> 0, pushed |-> {}, pushedTwice |-> {}, popped |-> {}, poppedTwice |-> {},
     parsed |-> {}, parsedTwice |-> {}, revisits |-> {}, depthDropped |-> FALSE,
     capHit |-> FALSE, queuedAtCap |-> {}, capDropped |-> {}]

Warn(kind, d) == [kind |-> kind, root |-> rootIdx, dir |-> d]

NoFirst == [fs |-> <<>>, roots |-> <<>>, out |-> <<>>, log |-> <<>>, removed |-> <<>>]

NoFm ==
    [pc |-> "off", readable |-> TRUE, contents |-> Text(<<>>, FALSE),
     overlay |-> OverlayAbsent, result |-> None, err |-> "", skill |-> None,
     loaded |-> FALSE, shown |-> None]

\* UpdateCheckResult::default()
UpdateCheckResultDefault == [upgrade_version |-> None, popup_version |-> None]

\* No call of updates.rs is in progress.
NoUpd ==
    [pc |-> "off", latest |-> <<>>, current |-> <<>>, newer |-> None,
     check_for_update_on_startup |-> FALSE, debug_assertions |-> FALSE,
     path_ok |-> FALSE, info |-> None, result |-> UpdateCheckResultDefault,
     spawned |-> FALSE]

\* No task has started; wrote and later are the observer's: the version
\* dismiss_version has written, and whether check_for_update wrote after.
NoTasks ==
    [startup |-> "off",
     refresh |-> [pc |-> "off", latest_version |-> <<>>, prev_info |-> None],
     dismiss |-> [pc |-> "off", version |-> <<>>, info |-> None],
     wrote |-> None, later |-> FALSE]

\* No call of is_retryable_stream_error.
NoEv ==
    [pc |-> "off", event |-> [message |-> <<>>, codex_error_info |-> None],
     retryable |-> FALSE]

\* The state on entry to load_skills(cwd), after `let roots = skill_roots(cwd)`.
EnterLoadSkills(f, rs) ==
    /\ fs = f
    /\ roots = rs
    /\ rootIdx = 1
    /\ pc = "root"
    /\ root_dir = 0
    /\ queue = <<>>
    /\ visited_dirs = {}
    /\ truncated_by_dir_limit = FALSE
    /\ dir = 0
    /\ depth = 0
    /\ ei = 0
    /\ out = <<>>
    /\ log = <<>>
    /\ hist = NoHist
    /\ origin = <<>>
    /\ raw = <<>>

\* discover_skills_under_root returns at once: the root does not
\* canonicalize, or is no directory.
SkipRoot ==
    /\ pc = "root"
    /\ rootIdx <= Len(roots)
    /\ roots[rootIdx].path.kind # "dir"
    /\ rootIdx' = rootIdx + 1
    /\ UNCHANGED <<fs, run, roots, pc, root_dir, queue, visited_dirs,
                   truncated_by_dir_limit, dir, depth, ei, out, log, hist, origin,
                   raw, first, fm, upd,
                   version_file, tasks, ev>>

\* The root canonicalizes to a directory: visited_dirs and queue are seeded.
BeginRoot ==
    /\ pc = "root"
    /\ rootIdx <= Len(roots)
    /\ roots[rootIdx].path.kind = "dir"
    /\ LET d == roots[rootIdx].path.id
       IN  /\ root_dir' = d
           /\ visited_dirs' = {d}
           /\ queue' = <<<<d, 0>>>>
           /\ hist' = [NoHist EXCEPT !.root = rootIdx, !.pushed = {d}]
    /\ truncated_by_dir_limit' = FALSE
    /\ pc' = "pop"
    /\ UNCHANGED <<fs, run, roots, rootIdx, dir, depth, ei, out, log, origin, raw,
                   first, fm, upd,
                   version_file, tasks, ev>>

Popped(d) ==
    [hist EXCEPT !.popped = SetInsert(@, d),
                 !.poppedTwice = IF d \in hist.popped THEN @ \cup {d} ELSE @]

\* queue.pop_front() and read_dir succeed; an empty directory ends its
\* `for entry` loop at once.
PopDir ==
    /\ pc = "pop"
    /\ queue # <<>>
    /\ ReadDirOk(fs, Head(queue)[1])
    /\ dir' = Head(queue)[1]
    /\ depth' = Head(queue)[2]
    /\ queue' = Tail(queue)
    /\ hist' = Popped(Head(queue)[1])
    /\ IF NumEntries(fs, Head(queue)[1]) = 0
       THEN pc' = "pop" /\ ei' = 0
       ELSE pc' = "entry" /\ ei' = 1
    /\ UNCHANGED <<fs, run, roots, rootIdx, root_dir, visited_dirs,
                   truncated_by_dir_limit, out, log, origin, raw, first, fm, upd,
                   version_file, tasks, ev>>

\* read_dir fails and the walk of the root returns instead of continuing.
ReadDirFailed_Return ==
    /\ pc = "pop"
    /\ queue # <<>>
    /\ ~ReadDirOk(fs, Head(queue)[1])
    /\ dir' = Head(queue)[1]
    /\ depth' = Head(queue)[2]
    /\ queue' = <<>>
    /\ hist' = Popped(Head(queue)[1])
    /\ log' = Append(log, Warn("read_dir", Head(queue)[1]))
    /\ UNCHANGED <<fs, run, roots, rootIdx, pc, root_dir, visited_dirs,
                   truncated_by_dir_limit, ei, out, origin, raw, first, fm, upd,
                   version_file, tasks, ev>>

\* queue.pop_front() succeeds and read_dir fails: warn and continue.
ReadDirFailed ==
    /\ pc = "pop"
    /\ queue # <<>>
    /\ ~ReadDirOk(fs, Head(queue)[1])
    /\ dir' = Head(queue)[1]
    /\ depth' = Head(queue)[2]
    /\ queue' = Tail(queue)
    /\ hist' = Popped(Head(queue)[1])
    /\ log' = Append(log, Warn("read_dir", Head(queue)[1]))
    /\ UNCHANGED <<fs, run, roots, rootIdx, pc, root_dir, visited_dirs,
                   truncated_by_dir_limit, ei, out, origin, raw, first, fm, upd,
                   version_file, tasks, ev>>

\* The `for entry` loop moves on to the next entry, or ends.
NextEntry ==
    IF ei = NumEntries(fs, dir)
    THEN pc' = "pop" /\ ei' = 0
    ELSE pc' = "entry" /\ ei' = ei + 1

Entry == EntryAt(fs, dir, ei)

\* `continue` on a dot name or on a failing file_type().
SkipEntry ==
    /\ pc = "entry"
    /\ StartsWithDot(Entry.name) \/ Entry.kind = "unknown"
    /\ NextEntry
    /\ UNCHANGED <<fs, run, roots, rootIdx, root_dir, queue, visited_dirs,
                   truncated_by_dir_limit, dir, depth, out, log, hist, origin, raw,
                   first, fm, upd,
                   version_file, tasks, ev>>

\* A call of enqueue_dir(path, depth + 1) and what the observer records.
CallEnqueueDir(path) ==
    LET r == EnqueueDir(queue, visited_dirs, truncated_by_dir_limit, path, depth + 1)
        pushedNow == Len(r.queue) > Len(queue)
        overDepth == depth + 1 > MAX_SCAN_DEPTH
        atCap == ~overDepth /\ Cardinality(visited_dirs) >= MAX_SKILLS_DIRS_PER_ROOT
    IN  /\ queue' = r.queue
        /\ visited_dirs' = r.visited
        /\ truncated_by_dir_limit' = r.truncated
        /\ hist' = [hist EXCEPT
                !.pushed = IF pushedNow THEN SetInsert(@, path) ELSE @,
                !.pushedTwice = IF pushedNow /\ path \in hist.pushed THEN @ \cup {path} ELSE @,
                !.revisits = IF path \in hist.pushed THEN @ \cup {path} ELSE @,
                !.depthDropped = @ \/ overDepth,
                !.capHit = @ \/ atCap,
                !.capDropped = IF atCap /\ path \notin visited_dirs
                               THEN @ \cup {path}
                               ELSE @,
                !.queuedAtCap = IF atCap /\ ~hist.capHit
                                THEN {queue[i][1] : i \in 1..Len(queue)}
                                ELSE @]

\* A symlink under a root that does not follow symlinks.
SymlinkNotFollowed ==
    /\ pc = "entry"
    /\ ~StartsWithDot(Entry.name)
    /\ Entry.kind = "symlink"
    /\ ~roots[rootIdx].follow_symlinks
    /\ NextEntry
    /\ UNCHANGED <<fs, run, roots, rootIdx, root_dir, queue, visited_dirs,
                   truncated_by_dir_limit, dir, depth, out, log, hist, origin, raw,
                   first, fm, upd,
                   version_file, tasks, ev>>

\* The symlink branch without the test of root.follow_symlinks.
SymlinkEntry_AnyRoot ==
    /\ pc = "entry"
    /\ ~StartsWithDot(Entry.name)
    /\ Entry.kind = "symlink"
    /\ CASE Entry.to = "broken" ->
                /\ log' = Append(log, Warn("stat", dir))
                /\ UNCHANGED <<queue, visited_dirs, truncated_by_dir_limit, hist>>
         [] Entry.to = "dir" ->
                /\ CallEnqueueDir(Entry.target)
                /\ UNCHANGED log
         [] OTHER ->
                UNCHANGED <<queue, visited_dirs, truncated_by_dir_limit, hist, log>>
    /\ NextEntry
    /\ UNCHANGED <<fs, run, roots, rootIdx, root_dir, dir, depth, out, origin, raw,
                   first, fm, upd,
                   version_file, tasks, ev>>

\* The symlink branch that parses a symlink named SKILL.md whose target is
\* a regular file.
SymlinkEntry_ParsesSkillFile ==
    /\ pc = "entry"
    /\ ~StartsWithDot(Entry.name)
    /\ Entry.kind = "symlink"
    /\ roots[rootIdx].follow_symlinks
    /\ CASE Entry.to = "broken" ->
                /\ log' = Append(log, Warn("stat", dir))
                /\ UNCHANGED <<queue, visited_dirs, truncated_by_dir_limit, hist, out, origin>>
         [] Entry.to = "dir" ->
                /\ CallEnqueueDir(Entry.target)
                /\ UNCHANGED <<log, out, origin>>
         [] OTHER ->
                /\ \E r \in {ParseSkillFile(Entry.file, dir, roots[rootIdx].scope)} :
                       LET pushed == Entry.name = SKILL_FILENAME /\ r.ok
                       IN  /\ out' = IF pushed THEN Append(out, r.skill) ELSE out
                           /\ origin' = IF pushed THEN Append(origin, rootIdx) ELSE origin
                /\ UNCHANGED <<queue, visited_dirs, truncated_by_dir_limit, hist, log>>
    /\ NextEntry
    /\ UNCHANGED <<fs, run, roots, rootIdx, root_dir, dir, depth, raw, first, fm, upd,
                   version_file, tasks, ev>>

\* A symlink under a root that follows symlinks: metadata fails (warn), or
\* finds a directory (enqueue its canonical path), or finds something else.
SymlinkEntry ==
    /\ pc = "entry"
    /\ ~StartsWithDot(Entry.name)
    /\ Entry.kind = "symlink"
    /\ roots[rootIdx].follow_symlinks
    /\ CASE Entry.to = "broken" ->
                /\ log' = Append(log, Warn("stat", dir))
                /\ UNCHANGED <<queue, visited_dirs, truncated_by_dir_limit, hist>>
         [] Entry.to = "dir" ->
                /\ CallEnqueueDir(Entry.target)
                /\ UNCHANGED log
         [] OTHER ->
                UNCHANGED <<queue, visited_dirs, truncated_by_dir_limit, hist, log>>
    /\ NextEntry
    /\ UNCHANGED <<fs, run, roots, rootIdx, root_dir, dir, depth, out, origin, raw,
                   first, fm, upd,
                   version_file, tasks, ev>>

\* An ordinary directory: enqueue its canonical path.
DirEntry ==
    /\ pc = "entry"
    /\ ~StartsWithDot(Entry.name)
    /\ Entry.kind = "dir"
    /\ CallEnqueueDir(Entry.target)
    /\ NextEntry
    /\ UNCHANGED <<fs, run, roots, rootIdx, root_dir, dir, depth, out, log, origin,
                   raw, first, fm, upd,
                   version_file, tasks, ev>>

\* Anything else: parsed when it is a regular file named SKILL.md; the
\* record is pushed, or the failure is logged.
FileEntry ==
    /\ pc = "entry"
    /\ ~StartsWithDot(Entry.name)
    /\ Entry.kind \in {"file", "other"}
    /\ \E r \in {ParseSkillFile(Entry.file, dir, roots[rootIdx].scope)} :
       LET isSkill == Entry.kind = "file" /\ Entry.name = SKILL_FILENAME
           pushed == isSkill /\ r.ok
       IN  /\ out' = IF pushed THEN Append(out, r.skill) ELSE out
           /\ origin' = IF pushed THEN Append(origin, rootIdx) ELSE origin
           /\ log' = IF isSkill /\ ~r.ok THEN Append(log, Warn("parse", dir)) ELSE log
           /\ hist' = IF isSkill
                      THEN [hist EXCEPT
                              !.parsed = @ \cup {dir},
                              !.parsedTwice = IF dir \in hist.parsed THEN @ \cup {dir} ELSE @]
                      ELSE hist
    /\ NextEntry
    /\ UNCHANGED <<fs, run, roots, rootIdx, root_dir, queue, visited_dirs,
                   truncated_by_dir_limit, dir, depth, raw, first, fm, upd,
                   version_file, tasks, ev>>

\* The queue is empty: the truncation warning, and the next root.
EndRoot ==
    /\ pc = "pop"
    /\ queue = <<>>
    /\ log' = IF truncated_by_dir_limit THEN Append(log, Warn("truncated", root_dir))
              ELSE log
    /\ rootIdx' = rootIdx + 1
    /\ pc' = "root"
    /\ UNCHANGED <<fs, run, roots, root_dir, queue, visited_dirs,
                   truncated_by_dir_limit, dir, depth, ei, out, hist, origin, raw,
                   first, fm, upd,
                   version_file, tasks, ev>>

\* After the last root: retain, sort_by, return.
Aggregate ==
    /\ pc = "root"
    /\ rootIdx > Len(roots)
    /\ raw' = out
    /\ \E retained \in {RetainFirstByPath(out)} : out' = SortBySkillCmp(retained)
    /\ pc' = "done"
    /\ UNCHANGED <<fs, run, roots, rootIdx, root_dir, queue, visited_dirs,
                   truncated_by_dir_limit, dir, depth, ei, log, hist, origin, first, fm, upd,
                   version_file, tasks, ev>>


(***************************************************************************)
(* Filesystems given entry by entry: [kind |-> "tree", list, unreadable,   *)
(* env], list[d] being the entries of directory d in read_dir order.       *)
(***************************************************************************)

\* Bounds of the filesystems that are explored.
ChainLen == 9
WideDirs == 2001
WideWidth == 400

Ancestor(git, skills) == [git |-> git, skills |-> skills]

\* Several roots: the cwd is one level below the repository root, both hold
\* .codex/skills (1 and 3), 1/a holds a symlink back to 1; 4 is <home>/skills
\* with .system (5) inside.
ListA ==
    <<  <<DirE("a", 2), FileE("README.md", FileOk("name: alpha"))>>,
        <<FileE(SKILL_FILENAME, FileOk("name: alpha")), LinkE("up", "dir", 1)>>,
        <<FileE(SKILL_FILENAME, FileOk("name: beta"))>>,
        <<DirE(SYSTEM_SKILLS_DIR_NAME, 5), DirE("u", 7),
          LinkF(SKILL_FILENAME, FileOk("name: beta"))>>,
        <<DirE("s", 6), LinkE("lnk", "dir", 7), LinkE(SKILL_FILENAME, "dir", 3)>>,
        <<FileE(SKILL_FILENAME, FileOk("name: alpha"))>>,
        <<FileE(SKILL_FILENAME, FileOk("name: ' alpha '")),
          FileE(".hidden", FileOk("name: beta")), LinkE(".git", "dir", 8)>>,
        <<FileE(SKILL_FILENAME, FileOk("name: beta")), OtherE("sock", "other"),
          OtherE("gone", "unknown"), LinkE("dangling", "broken", 0)>>  >>

EnvA(admin) ==
    [ancestors |-> <<Ancestor(FALSE, PDir(1)), Ancestor(TRUE, PDir(3)),
                     Ancestor(FALSE, PDir(8))>>,
     home |-> Some([system |-> PDir(5), user |-> PDir(4)]),
     admin |-> admin, unix |-> TRUE]

\* One root (1) over a chain 1/2/3/.../ChainLen, directory k being k - 1
\* levels below the root, with a SKILL.md 6 and 7 levels down; no codex home.
ListB ==
    [k \in 1..ChainLen |->
        (IF k < ChainLen THEN <<DirE("n", k + 1)>> ELSE <<>>)
        \o (IF k = MAX_SCAN_DEPTH + 1 THEN <<FileE(SKILL_FILENAME, FileOk("name: alpha"))>>
            ELSE IF k = MAX_SCAN_DEPTH + 2 THEN <<FileE(SKILL_FILENAME, FileOk("name: beta"))>>
            ELSE <<>>)]

EnvB ==
    [ancestors |-> <<Ancestor(TRUE, PDir(1))>>, home |-> None, admin |-> PMissing,
     unix |-> TRUE]

Tree(list, env) == [kind |-> "tree", list |-> list, unreadable |-> {}, env |-> env]

\* f with one more entry, a symlink named "ln" in directory a to directory b.
WithLink(f, a, b) == [f EXCEPT !.list[a] = Append(@, LinkE("ln", "dir", b))]

\* f with read_dir failing on directory d.
WithUnreadable(f, d) == [f EXCEPT !.unreadable = @ \cup {d}]

\* f with the first entry of directory d replaced by a SKILL.md holding file.
WithFile(f, d, file) == [f EXCEPT !.list[d][1] = FileE(SKILL_FILENAME, file)]

Dirs(f) == DOMAIN f.list

Links(f) == {f} \cup {WithLink(f, a, b) : a \in Dirs(f), b \in Dirs(f)}

Unreadables(f) == {f} \cup {WithUnreadable(f, d) : d \in Dirs(f)}

TreeFilesystems ==
    LET A == Tree(ListA, EnvA(PDir(8)))
        B == Tree(ListB, EnvB)
    IN  UNION {Unreadables(g) : g \in Links(A) \cup Links(B)}
        \cup {WithFile(g, d, file) :
                g \in {A, WithLink(A, 4, 6), WithLink(A, 1, 7)},
                d \in {2, 3, 6, 7, 8},
                file \in FailingFiles \cup {FileOk("name: beta")}}
        \cup UNION {Unreadables(Tree(ListA, EnvA(admin))) :
                        admin \in {PMissing, PFile, PDir(4)}}

\* The wide filesystems: <<width, dirs, tail>>.  The broad ones have a few
\* directories fewer than the visit cap, as many, or one more; the narrow
\* one is deeper than MAX_SCAN_DEPTH.
WideShapes ==
    {<<WideWidth, WideDirs - 11, FALSE>>, <<WideWidth, WideDirs - 2, TRUE>>,
     <<WideWidth, WideDirs - 1, FALSE>>, <<WideWidth, WideDirs - 1, TRUE>>,
     <<WideWidth, WideDirs, FALSE>>, <<WideWidth, WideDirs, TRUE>>,
     <<2, 2 * MAX_SCAN_DEPTH + 4, FALSE>>}

WideFilesystem(width, dirs, tail) ==
    [kind |-> "wide", width |-> width, dirs |-> dirs, tail |-> tail,
     unreadable |-> {dirs - 5},
     env |-> [ancestors |-> <<Ancestor(TRUE, PDir(1))>>,
              home |-> Some([system |-> PDir(dirs + 1), user |-> PMissing]),
              admin |-> PFile, unix |-> TRUE]]

WideFilesystems == {WideFilesystem(w[1], w[2], w[3]) : w \in WideShapes}

(***************************************************************************)
(* A second call of load_skills, on the filesystem of the first with one   *)
(* of the things that failed in the first call removed.                    *)
(***************************************************************************)

Item(what, d, i) == [what |-> what, dir |-> d, idx |-> i]

\* What the first call failed on: files that did not parse, directories
\* that could not be listed, roots that were skipped.
FailedItems ==
    LET warned(kind) == {log[k].dir : k \in {j \in 1..Len(log) : log[j].kind = kind}}
        skillFiles(d) == {j \in 1..Len(fs.list[d]) :
                            fs.list[d][j].kind = "file" /\ fs.list[d][j].name = SKILL_FILENAME}
    IN  UNION {{Item("file", d, i) : i \in skillFiles(d)} : d \in warned("parse")}
        \cup {Item("dir", d, 0) : d \in warned("read_dir")}
        \cup {Item("root", 0, i) : i \in {j \in 1..Len(roots) : roots[j].path.kind # "dir"}}

\* The directories at or below d (by ordinary directory entries).
Subtree(f, d) ==
    LET Kids(S) == {t \in Dirs(f) : \E k \in S : \E i \in 1..Len(f.list[k]) :
                        f.list[k][i].kind = "dir" /\ f.list[k][i].target = t}
        R[n \in 0..Cardinality(Dirs(f))] ==
            IF n = 0 THEN {d} ELSE R[n - 1] \cup Kids(R[n - 1])
    IN  R[Cardinality(Dirs(f))]

RemoveAt(seq, i) == SubSeq(seq, 1, i - 1) \o SubSeq(seq, i + 1, Len(seq))

\* f after `rm` of a file, or `rm -r` of a directory: its entry disappears,
\* and the symlinks and root paths that led into it dangle.
Remove(f, x) ==
    IF x.what = "file" THEN [f EXCEPT !.list[x.dir] = RemoveAt(@, x.idx)]
    ELSE IF x.what = "dir"
    THEN LET gone == Subtree(f, x.dir)
             fix(e) == IF e.kind = "symlink" /\ e.to = "dir" /\ e.target \in gone
                       THEN LinkE(e.name, "broken", 0) ELSE e
             keep(e) == ~(e.kind = "dir" /\ e.target \in gone)
             path(p) == IF p.kind = "dir" /\ p.id \in gone THEN PMissing ELSE p
         IN  [f EXCEPT
                !.list = [k \in Dirs(f) |->
                            LET l == SelectSeq(f.list[k], keep)
                            IN  [i \in 1..Len(l) |-> fix(l[i])]],
                !.unreadable = @ \ gone,
                !.env.ancestors = [i \in 1..Len(@) |-> [@[i] EXCEPT !.skills = path(@)]],
                !.env.home = IF @ = None THEN None
                             ELSE Some([system |-> path(@[1].system), user |-> path(@[1].user)]),
                !.env.admin = path(@)]
    ELSE f

Rerun ==
    /\ pc = "done"
    /\ run = 1
    /\ \E x \in FailedItems :
        /\ first' = [fs |-> fs, roots |-> roots, out |-> out, log |-> log, removed |-> x]
        /\ fs' = Remove(fs, x)
        /\ roots' = IF x.what = "root" THEN RemoveAt(roots, x.idx)
                    ELSE SkillRoots(Remove(fs, x).env)
    /\ run' = 2
    /\ rootIdx' = 1
    /\ pc' = "root"
    /\ root_dir' = 0
    /\ queue' = <<>>
    /\ visited_dirs' = {}
    /\ truncated_by_dir_limit' = FALSE
    /\ dir' = 0
    /\ depth' = 0
    /\ ei' = 0
    /\ out' = <<>>
    /\ log' = <<>>
    /\ hist' = NoHist
    /\ origin' = <<>>
    /\ raw' = <<>>
    /\ UNCHANGED <<fm, upd, version_file, tasks, ev>>

(***************************************************************************)
(* A second call of load_skills on the same filesystem, read_dir handing   *)
(* out the entries of the directories in another order.                    *)
(***************************************************************************)

\* One root (1) with two sibling directories that hold a skill of the same
\* name, a directory (4) that is one level down through a symlink and two
\* through directories, and a symlink back to the root; <home>/skills is
\* directory 2, so that 2, 4 and 5 are scanned under two roots, and
\* <home>/skills/.system is directory 6.
ListC ==
    <<  <<DirE("a", 2), DirE("b", 3), LinkE("ln", "dir", 4),
          FileE(SKILL_FILENAME, FileOk("name: beta"))>>,
        <<FileE(SKILL_FILENAME, FileOk("name: alpha")), DirE("c", 4),
          DirE(SYSTEM_SKILLS_DIR_NAME, 6)>>,
        <<FileE(SKILL_FILENAME, FileOk("name: alpha")), LinkE("back", "dir", 1)>>,
        <<FileE(SKILL_FILENAME, FileOk("name: beta")), DirE("d", 5)>>,
        <<FileE(SKILL_FILENAME, FileOk("name: alpha"))>>,
        <<LinkE("ln", "dir", 3), FileE(SKILL_FILENAME, FileOk("name: beta"))>>  >>

EnvC ==
    [ancestors |-> <<Ancestor(TRUE, PDir(1))>>,
     home |-> Some([system |-> PDir(6), user |-> PDir(2)]),
     admin |-> PMissing, unix |-> TRUE]

OrderFilesystems ==
    Links(Tree(ListC, EnvC))
    \cup {WithUnreadable(Tree(ListC, EnvC), 4)}
    \cup {WithLink(Tree(ListB, EnvB), a, a + MAX_SCAN_DEPTH) : a \in 1..2}

\* seq in the order p, a permutation of its indices.
Permute(seq, p) == [i \in 1..Len(seq) |-> seq[p[i]]]

\* f with the entries of one directory in any other order, or with the
\* entries of every directory in the opposite order.
Reorderings(f) ==
    UNION {{[f EXCEPT !.list[d] = Permute(@, p)] :
                p \in Permutations(1..Len(f.list[d]))} : d \in Dirs(f)}
    \cup {[f EXCEPT !.list = [d \in DOMAIN @ |->
                                [i \in 1..Len(@[d]) |-> @[d][Len(@[d]) + 1 - i]]]]}

Reorder ==
    /\ pc = "done"
    /\ run = 1
    /\ first' = [fs |-> fs, roots |-> roots, out |-> out, log |-> log,
                 removed |-> <<>>, raw |-> raw]
    /\ fs' \in Reorderings(fs)
    /\ run' = 2
    /\ rootIdx' = 1
    /\ pc' = "root"
    /\ root_dir' = 0
    /\ queue' = <<>>
    /\ visited_dirs' = {}
    /\ truncated_by_dir_limit' = FALSE
    /\ dir' = 0
    /\ depth' = 0
    /\ ei' = 0
    /\ out' = <<>>
    /\ log' = <<>>
    /\ hist' = NoHist
    /\ origin' = <<>>
    /\ raw' = <<>>
    /\ UNCHANGED <<roots, fm, upd, version_file, tasks, ev>>

(***************************************************************************)
(* Specifications.                                                         *)
(***************************************************************************)

Walk ==
    \/ SkipRoot
    \/ BeginRoot
    \/ PopDir
    \/ ReadDirFailed
    \/ SkipEntry
    \/ SymlinkNotFollowed
    \/ SymlinkEntry
    \/ DirEntry
    \/ FileEntry
    \/ EndRoot
    \/ Aggregate

Init ==
    /\ \E f \in TreeFilesystems : EnterLoadSkills(f, SkillRoots(f.env))
    /\ run = 1
    /\ first = NoFirst
    /\ fm = NoFm
    /\ upd = NoUpd
    /\ version_file = None
    /\ tasks = NoTasks
    /\ ev = NoEv

Next == Walk \/ Rerun

\* load_skills on the entry-by-entry filesystems, called once or twice.
Spec == Init /\ [][Next]_vars

InitCap ==
    /\ \E f \in WideFilesystems : EnterLoadSkills(f, SkillRoots(f.env))
    /\ run = 1
    /\ first = NoFirst
    /\ fm = NoFm
    /\ upd = NoUpd
    /\ version_file = None
    /\ tasks = NoTasks
    /\ ev = NoEv

\* load_skills on the wide filesystems, where the visit cap is reached.
SpecCap == InitCap /\ [][Walk]_vars

InitOrder ==
    /\ \E f \in OrderFilesystems : EnterLoadSkills(f, SkillRoots(f.env))
    /\ run = 1
    /\ first = NoFirst
    /\ fm = NoFm
    /\ upd = NoUpd
    /\ version_file = None
    /\ tasks = NoTasks
    /\ ev = NoEv

NextOrder == Walk \/ Reorder

\* load_skills called twice, the second time with directories enumerated
\* in another order.
SpecOrder == InitOrder /\ [][NextOrder]_vars

(***************************************************************************)
(* parse_skill_file and extract_frontmatter on file contents of a few      *)
(* lines, called on their own.                                             *)
(***************************************************************************)

\* Bounds of the contents: the number of lines and of carriage returns that
\* end a line.
MaxPieces == 3
MaxCR == 2

FmTexts == {"---", "--- ", "name: alpha", ""}

RECURSIVE SeqsUpTo(_, _)
SeqsUpTo(S, n) ==
    IF n = 0 THEN {<<>>}
    ELSE LET shorter == SeqsUpTo(S, n - 1)
         IN  shorter \cup {Append(q, x) : q \in shorter, x \in S}

\* The contents of at most MaxPieces lines; a string has one such form: no
\* "\n" ends the empty string, and where none ends the string its last line
\* is not empty.
FmContents ==
    {c \in {Text(p, nl) : p \in SeqsUpTo({LCR(t, n) : t \in FmTexts, n \in 0..MaxCR}, MaxPieces),
                          nl \in BOOLEAN} :
        \/ c.nl /\ c.pieces # <<>>
        \/ ~c.nl /\ (c.pieces = <<>> \/ c.pieces[Len(c.pieces)] # L(""))}

\* Files with a whole front-matter block: the name and the description as
\* they are, in blanks or blank, with or without a short description.
FmBlocks ==
    {Text(<<L("---"), L(n), L(d)>> \o m \o <<L("---"), L(""), L("# Body")>>, TRUE) :
        n \in {"name: alpha", "name: ' alpha '", "name: ' '"},
        d \in {"description: Does things", "description: ' '"},
        m \in {<<>>,
               <<L("metadata:"), L("  short-description: Short")>>,
               <<L("metadata:"), L("  short-description: ' '")>>}}

\* Files with more than one thing wrong: a block that is no YAML beside a
\* blank name, a blank name without a description, a blank description
\* before a blank name, and a file without front matter.
FmMixed ==
    {Text(<<L("---"), L("name: ' '"), L("{ not yaml"), L("---")>>, TRUE),
     Text(<<L("---"), L("name: ' '"), L("---")>>, TRUE),
     Text(<<L("---"), L("description: ' '"), L("name: ' '"), L("---")>>, TRUE),
     Text(<<L("name: ' '"), L("description: ' '")>>, TRUE)}

\* The states of <skill-dir>/agents/openai.yaml.
Overlays ==
    {OverlayAbsent, OverlayUnreadable, OverlayInvalid, OverlayNoInterface}
    \cup {OverlayWith(dn, sd) :
            dn \in {None, Some("A Tool"), Some(" alpha "), Some(" ")},
            sd \in {None, Some("beta"), Some(" ")}}

\* The calls: every short contents, and every overlay beside the files
\* with a whole block and beside one file for each way of failing.
FmCalls ==
    {[NoFm EXCEPT !.pc = "call", !.contents = c] : c \in FmContents}
    \cup {[NoFm EXCEPT !.pc = "call", !.readable = f.readable,
                       !.contents = f.contents, !.overlay = o] :
            f \in {File(c, OverlayAbsent) : c \in FmBlocks \cup FmMixed} \cup FailingFiles
                  \cup {[NoFile EXCEPT !.contents = c] : c \in FmMixed},
            o \in Overlays}

InitFM ==
    /\ \E f \in {Tree(<<>>, [ancestors |-> <<>>, home |-> None, admin |-> PMissing,
                                 unix |-> TRUE])} :
            EnterLoadSkills(f, <<>>)
    /\ run = 1
    /\ first = NoFirst
    /\ fm \in FmCalls
    /\ upd = NoUpd
    /\ version_file = None
    /\ tasks = NoTasks
    /\ ev = NoEv

\* parse_skill_file on the file [fm.readable, fm.contents, fm.overlay] in
\* directory 1: result is what its call of extract_frontmatter returns,
\* err the error, skill the record it returns and loaded whether it called
\* load_skill_interface.
CallParseSkillFile ==
    /\ fm.pc = "call"
    /\ \E r \in {ParseSkillFile([readable |-> fm.readable, contents |-> fm.contents,
                                 overlay |-> fm.overlay], 1, "User")} :
            fm' = [fm EXCEPT !.pc = "ret",
                             !.result = ExtractFrontmatter(fm.contents),
                             !.err = IF r.ok THEN "" ELSE r.err,
                             !.skill = IF r.ok THEN Some(r.skill) ELSE None,
                             !.loaded = r.loaded]
    /\ UNCHANGED <<fs, run, roots, rootIdx, pc, root_dir, queue, visited_dirs,
                   truncated_by_dir_limit, dir, depth, ei, out, log, hist, origin,
                   raw, first, upd, version_file, tasks, ev>>

\* display_name() and display_description() on the record returned.
CallDisplay ==
    /\ fm.pc = "ret"
    /\ fm.skill # None
    /\ fm' = [fm EXCEPT !.pc = "shown",
                        !.shown = Some([name |-> display_name(fm.skill[1]),
                                        description |-> display_description(fm.skill[1])])]
    /\ UNCHANGED <<fs, run, roots, rootIdx, pc, root_dir, queue, visited_dirs,
                   truncated_by_dir_limit, dir, depth, ei, out, log, hist, origin,
                   raw, first, upd, version_file, tasks, ev>>

NextFM == CallParseSkillFile \/ CallDisplay

SpecFM == InitFM /\ [][NextFM]_vars

(***************************************************************************)
(* skill_roots(cwd) on its own: pc is "skill_roots" at the call (line 55).  *)
(* The environment gives the ancestors of cwd from cwd upward, each with   *)
(* whether it holds .git and what <ancestor>/.codex/skills is.             *)
(***************************************************************************)

\* Bound of the environments: how many ancestors cwd has, itself included.
MaxAncestors == 4

\* skill_roots does not look at what the home and admin paths are.
PathKinds(d) == {PDir(d), PMissing}

AncestorSeqs ==
    UNION {{a \in [1..n -> [git : BOOLEAN, skills : {PDir(0), PFile, PMissing}]] : TRUE}
                : n \in 1..MaxAncestors}

\* Ancestor i has the directory i for its .codex/skills, when it is one.
Environments ==
    {[ancestors |-> [i \in 1..Len(a) |->
                        Ancestor(a[i].git,
                                 IF a[i].skills.kind = "dir" THEN PDir(i) ELSE a[i].skills)],
      home |-> h, admin |-> ad, unix |-> u] :
        a \in AncestorSeqs,
        h \in {None} \cup {Some([system |-> sy, user |-> us]) :
                              sy \in PathKinds(MaxAncestors + 1),
                              us \in PathKinds(MaxAncestors + 2)},
        ad \in PathKinds(MaxAncestors + 3),
        u \in BOOLEAN}

InitRoots ==
    /\ \E env \in Environments :
            fs = Tree([k \in 1..(MaxAncestors + 3) |-> <<>>], env)
    /\ roots = <<>>
    /\ pc = "skill_roots"
    /\ rootIdx = 1
    /\ root_dir = 0
    /\ queue = <<>>
    /\ visited_dirs = {}
    /\ truncated_by_dir_limit = FALSE
    /\ dir = 0
    /\ depth = 0
    /\ ei = 0
    /\ out = <<>>
    /\ log = <<>>
    /\ hist = NoHist
    /\ origin = <<>>
    /\ raw = <<>>
    /\ run = 1
    /\ first = NoFirst
    /\ fm = NoFm
    /\ upd = NoUpd
    /\ version_file = None
    /\ tasks = NoTasks
    /\ ev = NoEv

\* let roots = skill_roots(cwd);
CallSkillRoots ==
    /\ pc = "skill_roots"
    /\ roots' = SkillRoots(fs.env)
    /\ pc' = "root"
    /\ UNCHANGED <<fs, run, rootIdx, root_dir, queue, visited_dirs,
                   truncated_by_dir_limit, dir, depth, ei, out, log, hist, origin,
                   raw, first, fm, upd,
                   version_file, tasks, ev>>

NextRoots == CallSkillRoots

SpecRoots == InitRoots /\ [][NextRoots]_vars


(***************************************************************************)
(* src/cli/src/updates.rs.  A version string is a sequence of              *)
(* one-character strings; a number is the sequence of its decimal digits   *)
(* without leading zeros, so that values up to and above u64::MAX are      *)
(* told apart.                                                             *)
(***************************************************************************)

DigitChars == <<"0", "1", "2", "3", "4", "5", "6", "7", "8", "9">>

IsDigit(c) == \E i \in 1..Len(DigitChars) : DigitChars[i] = c

DigitVal(c) == (CHOOSE i \in 1..Len(DigitChars) : DigitChars[i] = c) - 1

\* char::is_whitespace, on the characters used here.
IsWhitespace(c) == c \in {" ", "\n"}

\* str::trim
StrTrim(s) ==
    LET keep == {i \in 1..Len(s) : ~IsWhitespace(s[i])}
    IN  IF keep = {} THEN <<>>
        ELSE SubSeq(s, CHOOSE i \in keep : \A j \in keep : i <= j,
                       CHOOSE i \in keep : \A j \in keep : i >= j)

\* str::split('.'): the pieces between the dots, at least one.
RECURSIVE Split(_)
Split(s) ==
    LET dots == {i \in 1..Len(s) : s[i] = "."}
    IN  IF dots = {} THEN <<s>>
        ELSE LET d == CHOOSE i \in dots : \A j \in dots : i <= j
             IN  <<SubSeq(s, 1, d - 1)>> \o Split(SubSeq(s, d + 1, Len(s)))

\* u64::MAX = 18446744073709551615
U64_MAX == <<1, 8, 4, 4, 6, 7, 4, 4, 0, 7, 3, 7, 0, 9, 5, 5, 1, 6, 1, 5>>

RECURSIVE StripZeros(_)
StripZeros(digits) ==
    IF digits # <<>> /\ digits[1] = 0 THEN StripZeros(Tail(digits)) ELSE digits

\* The order of two numbers: -1, 0 or 1.
NumCmp(a, b) ==
    IF Len(a) # Len(b) THEN CmpInt(Len(a), Len(b))
    ELSE LET diff == {i \in 1..Len(a) : a[i] # b[i]}
         IN  IF diff = {} THEN 0
             ELSE LET i == CHOOSE k \in diff : \A j \in diff : k <= j
                  IN  CmpInt(a[i], b[i])

\* str::parse::<u64>: decimal digits after an optional '+', at least one
\* digit, no other character, the value at most u64::MAX.
ParseU64(piece) ==
    LET digits == IF piece # <<>> /\ piece[1] = "+" THEN Tail(piece) ELSE piece
    IN  IF digits = <<>> \/ \E i \in 1..Len(digits) : ~IsDigit(digits[i]) THEN None
        ELSE LET n == StripZeros([i \in 1..Len(digits) |-> DigitVal(digits[i])])
             IN  IF NumCmp(n, U64_MAX) > 0 THEN None ELSE Some(n)

\* parse_version: the first three pieces of the trimmed string, each a u64;
\* the iterator is not looked at again after the third.
parse_version(v) ==
    LET iter == Split(StrTrim(v))
    IN  IF Len(iter) < 1 \/ ParseU64(iter[1]) = None THEN None
        ELSE IF Len(iter) < 2 \/ ParseU64(iter[2]) = None THEN None
        ELSE IF Len(iter) < 3 \/ ParseU64(iter[3]) = None THEN None
        ELSE Some([i \in 1..3 |-> ParseU64(iter[i])[1]])

\* (u64, u64, u64) as PartialOrd: l > c.
TupleGt(l, c) ==
    \/ NumCmp(l[1], c[1]) > 0
    \/ NumCmp(l[1], c[1]) = 0 /\ NumCmp(l[2], c[2]) > 0
    \/ NumCmp(l[1], c[1]) = 0 /\ NumCmp(l[2], c[2]) = 0 /\ NumCmp(l[3], c[3]) > 0

is_newer(latest, current) ==
    LET l == parse_version(latest)
        c == parse_version(current)
    IN  IF l # None /\ c # None THEN Some(TupleGt(l[1], c[1])) ELSE None

\* VersionInfo as read from the cache file; stale stands for
\* last_checked_at < Utc::now() - Duration::hours(20).
VersionInfo(latest_version, stale, dismissed_version) ==
    [latest_version |-> latest_version, stale |-> stale,
     dismissed_version |-> dismissed_version]

\* check_for_updates whose notice respects the dismissal as the popup does.
check_for_updates_NoticeRespectsDismissal(check, current_version, path_ok, info) ==
    IF ~check \/ ~path_ok
    THEN [result |-> UpdateCheckResultDefault, spawned |-> FALSE]
    ELSE LET popup ==
                IF info # None
                   /\ is_newer(info[1].latest_version, current_version) = Some(TRUE)
                   /\ info[1].dismissed_version # Some(info[1].latest_version)
                THEN Some(info[1].latest_version)
                ELSE None
         IN  [result |-> [upgrade_version |-> popup, popup_version |-> popup],
              spawned |-> info = None \/ info[1].stale]

\* check_for_updates, cfg(not(debug_assertions)).  path_ok: version_filepath()
\* is Ok; info: read_version_info(..).ok(); spawned: the background refresh
\* was started.
check_for_updates(check_for_update_on_startup, current_version, path_ok, info) ==
    IF ~check_for_update_on_startup
    THEN [result |-> UpdateCheckResultDefault, spawned |-> FALSE]
    ELSE IF ~path_ok
    THEN [result |-> UpdateCheckResultDefault, spawned |-> FALSE]
    ELSE LET newer == IF info = None THEN None
                      ELSE is_newer(info[1].latest_version, current_version)
             upgrade_version ==
                IF info # None /\ newer = Some(TRUE)
                THEN Some(info[1].latest_version)
                ELSE None
             popup_version ==
                IF upgrade_version = None THEN None
                ELSE IF info # None /\ info[1].dismissed_version = upgrade_version
                THEN None
                ELSE upgrade_version
         IN  [result |-> [upgrade_version |-> upgrade_version,
                          popup_version |-> popup_version],
              spawned |-> info = None \/ info[1].stale]

\* check_for_updates, cfg(debug_assertions).
check_for_updates_debug(check_for_update_on_startup, current_version) ==
    [result |-> UpdateCheckResultDefault, spawned |-> FALSE]

MaxParts == 4

\* The pieces version strings are made of.
VersionPieces ==
    {<<"0">>, <<"2">>, <<"1", "0">>, <<>>, <<"0", "-", "r", "c">>}

RECURSIVE Join(_)
Join(parts) ==
    IF Len(parts) = 1 THEN parts[1]
    ELSE parts[1] \o <<".">> \o Join(Tail(parts))

Padded(s) == <<" ">> \o s \o <<" ", "\n">>

\* 18446744073709551615.0.0 and 18446744073709551616.0.0
AtU64Max == <<"1", "8", "4", "4", "6", "7", "4", "4", "0", "7", "3", "7", "0", "9",
              "5", "5", "1", "6", "1", "5", ".", "0", ".", "0">>
AboveU64Max == <<"1", "8", "4", "4", "6", "7", "4", "4", "0", "7", "3", "7", "0", "9",
                 "5", "5", "1", "6", "1", "6", ".", "0", ".", "0">>

\* Every string of up to MaxParts pieces, bare and in whitespace.
LatestStrings ==
    LET bare == {Join(p) : p \in UNION {[1..n -> VersionPieces] : n \in 1..MaxParts}}
    IN  bare \cup {Padded(s) : s \in bare}
             \cup {AtU64Max, AboveU64Max, Join(<<<<"+", "2">>, <<"0">>, <<"0">>>>),
                   Join(<<<<"+">>, <<"0">>, <<"0">>>>)}

CurrentStrings ==
    {Join(<<<<"2">>, <<"0">>, <<"0">>>>),
     Join(<<<<"2">>, <<"1", "0">>, <<"0">>>>),
     Padded(Join(<<<<"0", "2">>, <<"0">>, <<"0">>>>)),
     Join(<<<<"2">>, <<"0">>>>),
     Join(<<<<"2">>, <<"0">>, <<"0", "-", "r", "c">>>>),
     Join(<<<<"2">>, <<"0">>, <<"0">>, <<"0">>>>),
     AtU64Max}

\* The versions a cache file holds in the calls of check_for_updates.
CachedStrings ==
    {Join(<<<<"2">>, <<"0">>, <<"0">>>>),
     Join(<<<<"2">>, <<"0">>, <<"2">>>>),
     Join(<<<<"1", "0">>, <<"0">>, <<"0">>>>),
     Padded(Join(<<<<"2">>, <<"0">>, <<"2">>>>)),
     Join(<<<<"2">>, <<"0">>, <<"2", "-", "r", "c">>>>),
     Join(<<<<"2">>, <<"0">>, <<"2">>, <<"r", "c">>>>)}

VersionInfos ==
    {VersionInfo(l, s, d) :
        l \in CachedStrings, s \in BOOLEAN,
        d \in {None} \cup {Some(v) : v \in CachedStrings}}

\* The calls: is_newer on every pair, and check_for_updates in both builds
\* with the cache file missing or unreadable (info None) or read.
UpdCalls ==
    {[NoUpd EXCEPT !.pc = "is_newer", !.latest = l, !.current = c] :
        l \in LatestStrings, c \in CurrentStrings}
    \cup {[NoUpd EXCEPT !.pc = "check_for_updates",
                        !.check_for_update_on_startup = chk,
                        !.debug_assertions = dbg,
                        !.current = c, !.path_ok = p[1], !.info = p[2]] :
            chk \in BOOLEAN, dbg \in BOOLEAN,
            c \in {Join(<<<<"2">>, <<"0">>, <<"0">>>>),
                   Join(<<<<"2">>, <<"0">>, <<"2">>>>),
                   Join(<<<<"2">>, <<"0">>>>)},
            p \in {<<FALSE, None>>, <<TRUE, None>>}
                  \cup {<<TRUE, Some(i)>> : i \in VersionInfos}}

InitUpd ==
    /\ \E f \in {Tree(<<>>, [ancestors |-> <<>>, home |-> None, admin |-> PMissing,
                                 unix |-> TRUE])} :
            EnterLoadSkills(f, <<>>)
    /\ run = 1
    /\ first = NoFirst
    /\ fm = NoFm
    /\ upd \in UpdCalls
    /\ version_file = None
    /\ tasks = NoTasks
    /\ ev = NoEv

CallIsNewer ==
    /\ upd.pc = "is_newer"
    /\ upd' = [upd EXCEPT !.pc = "ret_is_newer",
                          !.newer = is_newer(upd.latest, upd.current)]
    /\ UNCHANGED <<fs, run, roots, rootIdx, pc, root_dir, queue, visited_dirs,
                   truncated_by_dir_limit, dir, depth, ei, out, log, hist, origin,
                   raw, first, fm, version_file, tasks, ev>>

CallCheckForUpdates ==
    /\ upd.pc = "check_for_updates"
    /\ \E r \in {IF upd.debug_assertions
                 THEN check_for_updates_debug(upd.check_for_update_on_startup,
                                              upd.current)
                 ELSE check_for_updates(upd.check_for_update_on_startup,
                                        upd.current, upd.path_ok, upd.info)} :
            upd' = [upd EXCEPT !.pc = "ret_check_for_updates",
                               !.result = r.result,
                               !.spawned = r.spawned]
    /\ UNCHANGED <<fs, run, roots, rootIdx, pc, root_dir, queue, visited_dirs,
                   truncated_by_dir_limit, dir, depth, ei, out, log, hist, origin,
                   raw, first, fm, version_file, tasks, ev>>

NextUpd == CallIsNewer \/ CallCheckForUpdates

\* Single calls of is_newer and of check_for_updates.
SpecUpd == InitUpd /\ [][NextUpd]_vars


(***************************************************************************)
(* The version cache file and the two tasks that write it:                 *)
(* check_for_update, spawned by check_for_updates at startup, and          *)
(* dismiss_version.  version_file is what read_version_info(..).ok() would *)
(* return: None when the file is missing or does not parse.  Each task     *)
(* reads the file and writes it in two steps (they await create_dir_all    *)
(* and tokio::fs::write in between), so steps of the other task can come   *)
(* in between.                                                             *)
(***************************************************************************)

\* extract_version_from_latest_tag: Err is None.
extract_version_from_latest_tag(latest_tag_name) ==
    LET trimmed == StrTrim(latest_tag_name)
    IN  IF trimmed # <<>> /\ trimmed[1] = "v" THEN Some(Tail(trimmed)) ELSE None

Version(maj, min, pat) == Join(<<maj, min, pat>>)

\* The versions a cache file holds at startup, and the running version.
StartVersions == {Version(<<"2">>, <<"0">>, <<"0">>), Version(<<"2">>, <<"0">>, <<"2">>)}

RunningVersion == Version(<<"2">>, <<"0">>, <<"0">>)

\* What the release endpoint answers: a tag, or nothing (the request fails).
TagNames ==
    {<<"v">> \o Version(<<"2">>, <<"0">>, <<"2">>),
     <<"v">> \o Version(<<"2">>, <<"1", "0">>, <<"0">>) \o <<"\n">>,
     Version(<<"2">>, <<"1", "0">>, <<"0">>)}

\* The versions dismiss_version is called with.
DismissedVersions ==
    {Version(<<"2">>, <<"0">>, <<"2">>), Version(<<"2">>, <<"1", "0">>, <<"0">>)}

StartFiles ==
    {None} \cup {Some(VersionInfo(l, s, d)) :
                    l \in StartVersions, s \in BOOLEAN,
                    d \in {None} \cup {Some(v) : v \in StartVersions}}

InitCache ==
    /\ \E f \in {Tree(<<>>, [ancestors |-> <<>>, home |-> None, admin |-> PMissing,
                                 unix |-> TRUE])} :
            EnterLoadSkills(f, <<>>)
    /\ run = 1
    /\ first = NoFirst
    /\ fm = NoFm
    /\ upd = NoUpd
    /\ version_file \in StartFiles
    /\ tasks = [NoTasks EXCEPT !.startup = "call", !.dismiss.pc = "call"]
    /\ ev = NoEv

LoadSkillsUnchanged ==
    UNCHANGED <<fs, run, roots, rootIdx, pc, root_dir, queue, visited_dirs,
                truncated_by_dir_limit, dir, depth, ei, out, log, hist, origin,
                raw, first, fm, upd, ev>>

\* check_for_updates at startup (lines 43-59): the refresh is spawned when
\* the cache is missing or older than 20 hours.
Startup ==
    /\ tasks.startup = "call"
    /\ \E chk \in BOOLEAN :
         \E r \in {check_for_updates(chk, RunningVersion, TRUE, version_file)} :
            tasks' = [tasks EXCEPT !.startup = "done",
                                   !.refresh.pc = IF r.spawned THEN "fetch" ELSE "done"]
    /\ UNCHANGED version_file
    /\ LoadSkillsUnchanged

\* check_for_update, lines 154-162: the request fails, or answers a tag from
\* which the version is extracted.
RefreshFetch ==
    /\ tasks.refresh.pc = "fetch"
    /\ \/ tasks' = [tasks EXCEPT !.refresh.pc = "done"]
       \/ \E tag_name \in TagNames :
            \E v \in {extract_version_from_latest_tag(tag_name)} :
                tasks' = IF v = None
                         THEN [tasks EXCEPT !.refresh.pc = "done"]
                         ELSE [tasks EXCEPT !.refresh.pc = "read",
                                            !.refresh.latest_version = v[1]]
    /\ UNCHANGED version_file
    /\ LoadSkillsUnchanged

\* check_for_update, line 165: let prev_info = read_version_info(..).ok();
RefreshRead ==
    /\ tasks.refresh.pc = "read"
    /\ tasks' = [tasks EXCEPT !.refresh.pc = "write",
                              !.refresh.prev_info = version_file]
    /\ UNCHANGED version_file
    /\ LoadSkillsUnchanged

\* check_for_update, lines 166-176: the new info, with the dismissed version
\* of prev_info, is written.
RefreshWrite ==
    /\ tasks.refresh.pc = "write"
    /\ version_file' =
            Some(VersionInfo(tasks.refresh.latest_version, FALSE,
                             IF tasks.refresh.prev_info = None THEN None
                             ELSE tasks.refresh.prev_info[1].dismissed_version))
    /\ tasks' = [tasks EXCEPT !.refresh.pc = "done",
                              !.later = tasks.wrote # None]
    /\ LoadSkillsUnchanged

\* dismiss_version(version) is called.
DismissCall ==
    /\ tasks.dismiss.pc = "call"
    /\ \E v \in DismissedVersions :
            tasks' = [tasks EXCEPT !.dismiss.pc = "read", !.dismiss.version = v]
    /\ UNCHANGED version_file
    /\ LoadSkillsUnchanged

\* dismiss_version, lines 102-105: without a readable cache it returns.
DismissRead ==
    /\ tasks.dismiss.pc = "read"
    /\ tasks' = IF version_file = None
                THEN [tasks EXCEPT !.dismiss.pc = "done"]
                ELSE [tasks EXCEPT !.dismiss.pc = "write", !.dismiss.info = version_file]
    /\ UNCHANGED version_file
    /\ LoadSkillsUnchanged

\* dismiss_version, lines 107-113: the info it read is written back with
\* dismissed_version = Some(version).
DismissWrite ==
    /\ tasks.dismiss.pc = "write"
    /\ version_file' =
            Some([tasks.dismiss.info[1] EXCEPT
                    !.dismissed_version = Some(tasks.dismiss.version)])
    /\ tasks' = [tasks EXCEPT !.dismiss.pc = "done",
                              !.wrote = Some(tasks.dismiss.version),
                              !.later = FALSE]
    /\ LoadSkillsUnchanged

NextCache ==
    \/ Startup
    \/ RefreshFetch
    \/ RefreshRead
    \/ RefreshWrite
    \/ DismissCall
    \/ DismissRead
    \/ DismissWrite

\* One startup with its background refresh, and one call of dismiss_version,
\* their steps interleaved in every way.
SpecCache == InitCache /\ [][NextCache]_vars


(***************************************************************************)
(* potter_stream_recovery.rs: is_retryable_stream_error.  A message is a   *)
(* sequence of words, and str::contains is the search for a contiguous     *)
(* run of words.  The fields of a CodexErrorInfo variant are matched with  *)
(* `{ .. }` and are left out; "Other" stands for every variant the match   *)
(* does not name.                                                          *)
(***************************************************************************)

\* str::contains(needle)
Contains(haystack, needle) ==
    \E i \in 0..(Len(haystack) - Len(needle)) :
        \A j \in 1..Len(needle) : haystack[i + j] = needle[j]

StreamDisconnected == <<"stream", "disconnected", "before", "completion">>

ErrorSendingRequest == <<"error", "sending", "request", "for", "url">>

\* Lines 25-27: the two substring tests of the `_` arm.
MessageFallback(message) ==
    \/ Contains(message, StreamDisconnected)
    \/ Contains(message, ErrorSendingRequest)

\* The variants of the first arm, lines 17-20.
RetryableKinds ==
    {"HttpConnectionFailed", "ResponseStreamConnectionFailed",
     "ResponseStreamDisconnected", "ResponseTooManyFailedAttempts"}

\* is_retryable_stream_error(event), lines 15-30: every event the first arm
\* does not match, with or without codex_error_info, goes to the `_` arm.
is_retryable_stream_error(event) ==
    IF /\ event.codex_error_info # None
       /\ event.codex_error_info[1] \in RetryableKinds
    THEN TRUE
    ELSE MessageFallback(event.message)

CodexErrorInfo == RetryableKinds \cup {"Other"}

\* Messages: a phrase of the fallback, whole, cut short, with a word in
\* between or in another case, or an unrelated one, inside other words.
MessageCores ==
    {StreamDisconnected, ErrorSendingRequest,
     SubSeq(StreamDisconnected, 1, 3),
     <<"Stream", "disconnected", "before", "completion">>,
     <<"error", "sending", "a", "request", "for", "url">>,
     <<"context", "window", "exceeded">>,
     <<>>}

Messages ==
    {pre \o core \o post :
        pre \in {<<>>, <<"unexpected", "status", ":">>},
        core \in MessageCores,
        post \in {<<>>, <<"(", "https://api", ")">>}}

ErrorEvents ==
    {[message |-> m, codex_error_info |-> c] :
        m \in Messages,
        c \in {None} \cup {Some(k) : k \in CodexErrorInfo}}

InitEv ==
    /\ \E f \in {Tree(<<>>, [ancestors |-> <<>>, home |-> None, admin |-> PMissing,
                                 unix |-> TRUE])} :
            EnterLoadSkills(f, <<>>)
    /\ run = 1
    /\ first = NoFirst
    /\ fm = NoFm
    /\ upd = NoUpd
    /\ version_file = None
    /\ tasks = NoTasks
    /\ \E e \in ErrorEvents : ev = [pc |-> "call", event |-> e, retryable |-> FALSE]

CallIsRetryableStreamError ==
    /\ ev.pc = "call"
    /\ ev' = [ev EXCEPT !.pc = "ret",
                        !.retryable = is_retryable_stream_error(ev.event)]
    /\ UNCHANGED <<fs, run, roots, rootIdx, pc, root_dir, queue, visited_dirs,
                   truncated_by_dir_limit, dir, depth, ei, out, log, hist, origin,
                   raw, first, fm, upd, version_file, tasks>>

NextEv == CallIsRetryableStreamError

\* Single calls of is_retryable_stream_error.
SpecEv == InitEv /\ [][NextEv]_vars


(***************************************************************************)
(* Properties of load_skills                                               *)
(***************************************************************************)

Returned == pc = "done"

Indices(seq) == 1..Len(seq)

\* The positions of `raw` (the records as the walks pushed them) that hold
\* canonical path p.
Found(p) == {j \in Indices(raw) : raw[j].path = p}

\* The first root, in scan order, whose walk pushed a record for path p.
EarliestRoot(p) ==
    CHOOSE r \in {origin[j] : j \in Found(p)} : \A j \in Found(p) : r <= origin[j]

\* C1: when the same canonical SKILL.md path is found under more than one
\* root, the returned list holds the record of the earliest root in scan
\* order, with that root's scope, and no record of a later root.
C1_EarliestRootWins ==
    Returned =>
        \A p \in {raw[j].path : j \in Indices(raw)} :
            \E i \in Indices(out) :
                /\ out[i].path = p
                /\ out[i].scope = roots[EarliestRoot(p)].scope
                /\ \E j \in Found(p) : origin[j] = EarliestRoot(p) /\ raw[j] = out[i]
                /\ \A k \in Indices(out) : out[k].path = p => k = i

\* A path was found under two roots of different scopes.
C1_Witness ==
    /\ Returned
    /\ \E j, k \in Indices(raw) :
        /\ raw[j].path = raw[k].path
        /\ origin[j] < origin[k]
        /\ raw[j].scope # raw[k].scope

\* C2: the returned list never holds two records with the same canonical
\* path, and every path that some walk found is in it exactly once.
C2_OnePerPath ==
    Returned =>
        /\ \A i, k \in Indices(out) : out[i].path = out[k].path => i = k
        /\ \A j \in Indices(raw) :
               Cardinality({i \in Indices(out) : out[i].path = raw[j].path}) = 1

\* A skill directory was reached by its directory entry under one root and
\* through a followed symlink under another, and is returned.
C2_Witness ==
    /\ Returned
    /\ run = 1
    /\ \E j, k \in Indices(raw) : j # k /\ raw[j].path = raw[k].path
    /\ \E d \in Dirs(fs) : \E i \in Indices(fs.list[d]) :
            /\ fs.list[d][i].kind = "symlink"
            /\ fs.list[d][i].to = "dir"
            /\ Cardinality(Found(fs.list[d][i].target)) = 2

\* The rank the claim gives each scope.
ClaimedRank(scope) ==
    CASE scope = "Repo" -> 0 [] scope = "User" -> 1 [] scope = "System" -> 2
      [] scope = "Admin" -> 3

\* (rank, name, path) of a is at most that of b, lexicographically.
KeyLeq(a, b) ==
    \/ ClaimedRank(a.scope) < ClaimedRank(b.scope)
    \/ /\ ClaimedRank(a.scope) = ClaimedRank(b.scope)
       /\ \/ StrRank(a.name) < StrRank(b.name)
          \/ a.name = b.name /\ a.path <= b.path

\* C3: the returned list is sorted by (scope rank, name, canonical path),
\* so every User skill precedes every System skill.
C3_Sorted ==
    Returned =>
        /\ \A i \in Indices(out) : i < Len(out) => KeyLeq(out[i], out[i + 1])
        /\ \A i, k \in Indices(out) :
               out[i].scope = "User" /\ out[k].scope = "System" => i < k

\* A System skill was found before a User skill and is returned after it.
C3_Witness ==
    /\ Returned
    /\ \E i, k \in Indices(out) : \E j, l \in Indices(raw) :
        /\ out[i].scope = "User" /\ out[k].scope = "System" /\ i < k
        /\ raw[j] = out[i] /\ raw[l] = out[k] /\ l < j


\* The call runs on: a step of load_skills that can be taken is taken.
FairSpec == Spec /\ WF_vars(Walk)

InWalk == pc \in {"pop", "entry"}

\* The walk of the root hist.root has ended.
WalkEnded == hist.root # 0 /\ ~InWalk

ThisRoot == roots[hist.root]

\* The entries of directory d, when it can be listed.
Listing(f, d) ==
    IF ReadDirOk(f, d) THEN {EntryAt(f, d, i) : i \in 1..NumEntries(f, d)} ELSE {}

\* Whether the walk of a root follows entry e into a directory.
Followed(e, follow) ==
    /\ ~StartsWithDot(e.name)
    /\ \/ e.kind = "dir"
       \/ e.kind = "symlink" /\ follow /\ e.to = "dir"

\* The directories that a chain of at most n followed entries reaches from r.
RECURSIVE Within(_, _, _, _)
Within(f, r, follow, n) ==
    IF n = 0 THEN {r}
    ELSE LET S == Within(f, r, follow, n - 1)
         IN  S \cup {e.target : e \in {x \in UNION {Listing(f, d) : d \in S} :
                                            Followed(x, follow)}}

\* The directories nested at most n levels below r (ordinary directory
\* entries only, whatever their names).
RECURSIVE NestedWithin(_, _, _)
NestedWithin(f, r, n) ==
    IF n = 0 THEN {r}
    ELSE LET S == NestedWithin(f, r, n - 1)
         IN  S \cup {e.target : e \in {x \in UNION {{EntryAt(f, d, i) : i \in 1..NumEntries(f, d)} : d \in S} :
                                            x.kind = "dir"}}

\* C4: the walk of one root terminates, also where a followed symlink points
\* to an ancestor of its directory or to the root: a walk that has begun
\* comes to its end.
C4_WalkTerminates == InWalk ~> (pc = "root")

\* A walk has ended that listed a directory holding a followed symlink to
\* that directory or to one of its ancestors.
C4_Witness ==
    /\ WalkEnded
    /\ fs.kind = "tree"
    /\ ThisRoot.follow_symlinks
    /\ \E d \in hist.popped : \E e \in Listing(fs, d) :
        /\ e.kind = "symlink"
        /\ Followed(e, TRUE)
        /\ d \in Subtree(fs, e.target)

\* C5: during the walk of one root no canonical directory is pushed on the
\* queue twice (the root, seeded, is never pushed again), none is listed
\* twice, and no SKILL.md is parsed twice.
C5_AtMostOnce ==
    /\ hist.pushedTwice = {}
    /\ hist.poppedTwice = {}
    /\ hist.parsedTwice = {}
    /\ \A i, j \in Indices(queue) : queue[i][1] = queue[j][1] => i = j

\* A walk has ended in which enqueue_dir was called for the root again and
\* for another directory that was already visited.
C5_Witness ==
    /\ WalkEnded
    /\ root_dir \in hist.revisits
    /\ hist.revisits # {root_dir}
    /\ hist.parsed # {}

\* The SKILL.md files of directory d that parse_skill_file accepts.
ParseableAt(f, d) ==
    {e \in Listing(f, d) :
        /\ e.kind = "file"
        /\ e.name = SKILL_FILENAME
        /\ ParseSkillFile(e.file, d, ThisRoot.scope).ok}

\* The walk of the root hist.root has pushed a record for directory d (read
\* before the final retain and sort, while origin runs along out).
FoundBy(d) == \E i \in Indices(out) : out[i].path = d /\ origin[i] = hist.root

\* The directories from which the walk of hist.root has pushed a record.
FoundDirs == {out[i].path : i \in {j \in Indices(out) : origin[j] = hist.root}}

\* The directories that at most MAX_SCAN_DEPTH followed entries reach.
Reach == Within(fs, root_dir, ThisRoot.follow_symlinks, MAX_SCAN_DEPTH)

\* C6 as stated: under any scan root a directory nested more than
\* MAX_SCAN_DEPTH levels below the root is never listed, a SKILL.md 7
\* levels below the root is absent from that root's results, and one 6
\* levels below is present when the visit cap is not hit.
C6_Original ==
    hist.root # 0 =>
        /\ \A d \in hist.popped \cap Subtree(fs, root_dir) :
                d \in NestedWithin(fs, root_dir, MAX_SCAN_DEPTH)
        /\ pc # "done" =>
                \A d \in FoundDirs \cap Subtree(fs, root_dir) :
                    d \in NestedWithin(fs, root_dir, MAX_SCAN_DEPTH)
        /\ (pc = "root" /\ ~hist.capHit) =>
                \A d \in Within(fs, root_dir, FALSE, MAX_SCAN_DEPTH) :
                    ParseableAt(fs, d) # {} => FoundBy(d)

\* C6, amended: the walk of a root lists only directories that a chain of
\* at most MAX_SCAN_DEPTH followed entries (directories, and symlinks to
\* directories where the root follows them, dot names apart) reaches from
\* the root, and its records come from those directories only; when the
\* walk has ended without hitting the visit cap it has listed every such
\* directory and holds a record for every one with a SKILL.md that parses.
C6_DepthCap ==
    hist.root # 0 =>
        /\ hist.popped \subseteq Reach
        /\ pc # "done" => FoundDirs \subseteq Reach
        /\ (pc = "root" /\ ~hist.capHit) =>
                \A d \in Reach :
                    /\ d \in hist.popped
                    /\ ParseableAt(fs, d) # {} => FoundBy(d)

\* A walk has ended with the record of a SKILL.md exactly MAX_SCAN_DEPTH
\* entries from the root and without listing a directory one entry further
\* that holds a SKILL.md too.
C6_Witness ==
    /\ pc = "root"
    /\ hist.root # 0
    /\ \E d \in Reach \ Within(fs, root_dir, ThisRoot.follow_symlinks, MAX_SCAN_DEPTH - 1) :
            FoundBy(d)
    /\ \E d \in Within(fs, root_dir, ThisRoot.follow_symlinks, MAX_SCAN_DEPTH + 1) \ Reach :
            /\ ParseableAt(fs, d) # {}
            /\ d \notin hist.popped
            /\ ~FoundBy(d)

\* C7: in every state of the walk of one root the visited set holds at most
\* MAX_SKILLS_DIRS_PER_ROOT canonical directories, the root among them, and
\* every pair in the queue has a depth of at most MAX_SCAN_DEPTH; the
\* directories listed are visited ones, hence at most
\* MAX_SKILLS_DIRS_PER_ROOT of them.
C7_Caps ==
    /\ Cardinality(visited_dirs) <= MAX_SKILLS_DIRS_PER_ROOT
    /\ hist.root # 0 => root_dir \in visited_dirs
    /\ \A i \in Indices(queue) :
            queue[i][2] <= MAX_SCAN_DEPTH /\ queue[i][1] \in visited_dirs
    /\ hist.popped \subseteq visited_dirs
    /\ Cardinality(hist.popped) <= MAX_SKILLS_DIRS_PER_ROOT

\* A walk has filled the visited set to the cap, was refused a further
\* directory, and went on to list every visited directory.
C7_Witness ==
    /\ WalkEnded
    /\ Cardinality(visited_dirs) = MAX_SKILLS_DIRS_PER_ROOT
    /\ hist.capHit
    /\ hist.popped = visited_dirs

\* No scan root lies strictly below the directory removed for the second
\* call and no symlink outside it points strictly below it.
NothingElseLeadsBelow ==
    LET f == first.fs
        below == Subtree(f, first.removed.dir) \ {first.removed.dir}
    IN  /\ \A i \in Indices(first.roots) :
                first.roots[i].path.kind = "dir" => first.roots[i].path.id \notin below
        /\ \A k \in Dirs(f) \ Subtree(f, first.removed.dir) :
                \A i \in Indices(f.list[k]) :
                    ~(f.list[k][i].kind = "symlink" /\ f.list[k][i].to = "dir"
                      /\ f.list[k][i].target \in below)

\* C8 as stated: when a SKILL.md fails to parse, a directory cannot be
\* listed or a root is skipped, load_skills returns what it returns on the
\* same filesystem with that file, directory or root removed.
C8_Original == (run = 2 /\ Returned) => out = first.out

\* C8, amended: load_skills returns what it returns on the same filesystem
\* with the failing file or root removed; with a directory that cannot be
\* listed removed it returns the same provided the filesystem has fewer
\* directories than the visit cap, no scan root lies strictly below that
\* directory and no symlink outside it points strictly below it.
C8_LocalFailure ==
    (/\ run = 2
     /\ Returned
     /\ first.removed.what = "dir" =>
            /\ Cardinality(Dirs(first.fs)) < MAX_SKILLS_DIRS_PER_ROOT
            /\ NothingElseLeadsBelow)
    => out = first.out

\* The second call has returned, with a directory removed that the first
\* call could not list and that held directories, and the first call
\* returned skills found elsewhere and logged the failure.
C8_Witness ==
    /\ run = 2
    /\ Returned
    /\ first.removed.what = "dir"
    /\ NothingElseLeadsBelow
    /\ Subtree(first.fs, first.removed.dir) # {first.removed.dir}
    /\ first.out # <<>>
    /\ out = first.out
    /\ Len(log) < Len(first.log)

\* The truncation warnings logged for root r.
TruncWarnings(r) ==
    Cardinality({k \in Indices(log) : log[k].kind = "truncated" /\ log[k].root = r})

\* C9 as stated: when the walk of a root drops a directory at the depth cap
\* or at the visit cap, one truncation warning is logged for that root
\* after the walk ends.
C9_Original ==
    (WalkEnded /\ (hist.depthDropped \/ hist.capHit)) => TruncWarnings(hist.root) = 1

\* C9, amended: the walk of a root logs one truncation warning, after it
\* ends, when it dropped a directory at the visit cap, and none otherwise
\* (a directory dropped at the depth cap is dropped without a warning); the
\* walk keeps the skills found so far.
C9_Truncation ==
    /\ InWalk => TruncWarnings(hist.root) = 0
    /\ WalkEnded => TruncWarnings(hist.root) = (IF hist.capHit THEN 1 ELSE 0)
    /\ (pc = "root" /\ hist.root # 0) =>
            \A d \in hist.popped : ParseableAt(fs, d) # {} => FoundBy(d)

\* A walk that was refused a directory at the visit cap has ended with one
\* warning and with the skills it found.
C9_Witness ==
    /\ pc = "root"
    /\ hist.root # 0
    /\ hist.capHit
    /\ TruncWarnings(hist.root) = 1
    /\ FoundDirs # {}

\* Line i of the contents without the carriage returns that end it.
FmLine(i) == fm.contents.pieces[i].text

\* The lines after the first that are `---`.
FmClosers == {i \in 2..Len(fm.contents.pieces) : FmLine(i) = "---"}

\* C10: extract_frontmatter yields a block if and only if the first line,
\* its trailing carriage returns ignored, is `---` and a later line is
\* `---`; the block is the lines strictly between the first line and the
\* first such later line, in order, without their trailing carriage
\* returns; otherwise (an empty file, another first line, no closing line)
\* parse_skill_file, having read the file, fails with MissingFrontmatter.
C10_Frontmatter ==
    fm.pc = "ret" =>
        LET hasBlock == /\ fm.contents.pieces # <<>>
                        /\ FmLine(1) = "---"
                        /\ FmClosers # {}
        IN  /\ fm.result # None <=> hasBlock
            /\ hasBlock =>
                    LET c == CHOOSE i \in FmClosers : \A j \in FmClosers : i <= j
                    IN  /\ Len(fm.result[1]) = c - 2
                        /\ \A i \in 1..(c - 2) : fm.result[1][i] = FmLine(i + 1)
            /\ fm.readable => (fm.err = "MissingFrontmatter" <=> ~hasBlock)

\* A file of CRLF lines with a block of one line and a second `---` line
\* after the one that closes it.
C10_Witness ==
    /\ fm.pc = "ret"
    /\ fm.result = Some(<<"name: alpha">>)
    /\ fm.contents.pieces[1].cr > 0
    /\ fm.contents.pieces[3].cr > 0
    /\ fm.contents.nl

\* A step at a symlink entry that pushes a directory is a step of a root
\* that follows symlinks, at a symlink whose target is a directory, and it
\* pushes that target.
SymlinkFollowedOnlyToDir ==
    (/\ pc = "entry"
     /\ Entry.kind = "symlink"
     /\ (queue' # queue \/ visited_dirs' # visited_dirs))
    => /\ roots[rootIdx].follow_symlinks
       /\ Entry.to = "dir"
       /\ queue' = Append(queue, <<Entry.target, depth + 1>>)

\* C11: under a root that does not follow symlinks every directory listed
\* is reached from the canonical root through ordinary directory entries
\* only; under a root that follows them a symlink entry is followed only
\* when its target is a directory.
C11_Symlinks ==
    /\ [](hist.root # 0 /\ ~ThisRoot.follow_symlinks
            => hist.popped \subseteq Within(fs, root_dir, FALSE, MAX_SCAN_DEPTH))
    /\ [][SymlinkFollowedOnlyToDir]_vars

\* The walk of a root that does not follow symlinks has ended; it listed a
\* directory that holds a symlink to a directory, which it did not list.
C11_Witness ==
    /\ WalkEnded
    /\ ~ThisRoot.follow_symlinks
    /\ \E d \in hist.popped : \E e \in Listing(fs, d) :
            /\ e.kind = "symlink"
            /\ e.to = "dir"
            /\ ~StartsWithDot(e.name)
            /\ e.target \notin hist.popped

\* The index of the nearest ancestor that holds .git, or of the last
\* ancestor (the filesystem root) when none does.
RepoRootIndex ==
    LET anc == fs.env.ancestors
        withGit == {i \in 1..Len(anc) : anc[i].git}
    IN  IF withGit = {} THEN Len(anc)
        ELSE CHOOSE i \in withGit : \A j \in withGit : i <= j

\* The ancestors, at or below the repository root, whose .codex/skills is a
\* directory.
RepoAncestors ==
    {i \in 1..RepoRootIndex : fs.env.ancestors[i].skills.kind = "dir"}

\* The roots that follow the Repo roots.
OtherRoots ==
    (IF fs.env.home = None THEN <<>>
     ELSE <<SkillRoot(fs.env.home[1].system, "System", FALSE),
            SkillRoot(fs.env.home[1].user, "User", TRUE)>>)
    \o (IF fs.env.unix THEN <<SkillRoot(fs.env.admin, "Admin", TRUE)>> ELSE <<>>)

\* C12: skill_roots returns first the Repo roots of the ancestors of cwd,
\* closest first, up to and including the nearest ancestor that holds .git
\* (all of them when none does), only those whose .codex/skills is a
\* directory; then the System root, the User root (both when there is a
\* codex home) and the Admin root (on unix).  No ancestor strictly above
\* the repository root yields a Repo root.
C12_RootOrder ==
    pc = "root" =>
        LET n == Cardinality(RepoAncestors)
        IN  /\ Len(roots) = n + Len(OtherRoots)
            /\ \A k \in 1..n :
                    \E i \in RepoAncestors :
                        /\ Cardinality({j \in RepoAncestors : j < i}) = k - 1
                        /\ roots[k] = SkillRoot(fs.env.ancestors[i].skills, "Repo", TRUE)
            /\ \A k \in 1..Len(OtherRoots) : roots[n + k] = OtherRoots[k]
            /\ \A k \in 1..Len(roots) :
                    roots[k].scope = "Repo" =>
                        \A i \in (RepoRootIndex + 1)..Len(fs.env.ancestors) :
                            roots[k].path # PDir(i)

\* skill_roots has returned two Repo roots, leaving out an ancestor in
\* between whose .codex/skills is no directory and one above the
\* repository root whose .codex/skills is a directory, and the System, User
\* and Admin roots after them.
C12_Witness ==
    /\ pc = "root"
    /\ Len(roots) = 5
    /\ [i \in 1..5 |-> roots[i].scope] = <<"Repo", "Repo", "System", "User", "Admin">>
    /\ RepoAncestors = {1, 3}
    /\ Len(fs.env.ancestors) > 3
    /\ fs.env.ancestors[4].skills.kind = "dir"

\* C13: display_name is the overlay's display name when the record's
\* interface has one and the front-matter name otherwise;
\* display_description is the overlay's short description when present,
\* else the front-matter short description when present, else the full
\* description, also when the interface has a display name only.
C13_Display ==
    fm.pc = "shown" =>
        LET skill == fm.skill[1]
            overlayName == IF skill.interface = None THEN None
                           ELSE skill.interface[1].display_name
            overlayShort == IF skill.interface = None THEN None
                            ELSE skill.interface[1].short_description
        IN  /\ overlayName # None => fm.shown[1].name = overlayName[1]
            /\ overlayName = None => fm.shown[1].name = skill.name
            /\ overlayShort # None => fm.shown[1].description = overlayShort[1]
            /\ (overlayShort = None /\ skill.short_description # None)
                    => fm.shown[1].description = skill.short_description[1]
            /\ (overlayShort = None /\ skill.short_description = None)
                    => fm.shown[1].description = skill.description

\* The accessors were called on a record whose overlay has a display name
\* only and whose front matter has a short description.
C13_Witness ==
    /\ fm.pc = "shown"
    /\ fm.skill[1].interface = Some([display_name |-> Some("A Tool"),
                                     short_description |-> None])
    /\ fm.skill[1].short_description = Some("Short")
    /\ fm.shown = Some([name |-> "A Tool", description |-> "Short"])

\* The cached latest version is newer than the current version of the call.
CachedIsNewer ==
    /\ upd.info # None
    /\ is_newer(upd.info[1].latest_version, upd.current) = Some(TRUE)

\* C14: in the result of check_for_updates (release build), upgrade_version
\* is the cached latest version exactly when that version is newer than
\* the current one, dismissed or not; popup_version is absent or equal to
\* upgrade_version, and absent exactly when upgrade_version is absent or
\* equals the cached dismissed_version; with check_for_update_on_startup
\* false both are absent.
C14_UpdateResult ==
    (upd.pc = "ret_check_for_updates" /\ ~upd.debug_assertions) =>
        LET r == upd.result
        IN  /\ upd.check_for_update_on_startup =>
                    r.upgrade_version =
                        IF CachedIsNewer THEN Some(upd.info[1].latest_version) ELSE None
            /\ r.popup_version \in {None, r.upgrade_version}
            /\ r.popup_version = None
                    <=> \/ r.upgrade_version = None
                        \/ /\ upd.info # None
                           /\ upd.info[1].dismissed_version = r.upgrade_version
            /\ ~upd.check_for_update_on_startup => r = UpdateCheckResultDefault

\* A newer cached version that was dismissed: the notice names it, the
\* popup does not.
C14_Witness ==
    /\ upd.pc = "ret_check_for_updates"
    /\ ~upd.debug_assertions
    /\ upd.info # None
    /\ upd.info[1].dismissed_version = Some(upd.info[1].latest_version)
    /\ upd.result.upgrade_version = Some(upd.info[1].latest_version)
    /\ upd.result.popup_version = None

\* s, trimmed, is three pieces between dots and each piece is a number.
IsMajorMinorPatch(s) ==
    LET pieces == Split(StrTrim(s))
    IN  Len(pieces) = 3 /\ \A i \in 1..3 : ParseU64(pieces[i]) # None

\* The three numbers of such a string.
Triple(s) == [i \in 1..3 |-> ParseU64(Split(StrTrim(s))[i])[1]]

\* Lexicographic order: l is strictly greater than c.
StrictlyGreater(l, c) ==
    \E i \in 1..3 : NumCmp(l[i], c[i]) > 0 /\ \A j \in 1..(i - 1) : l[j] = c[j]

MinDepth(d) ==
    CHOOSE n \in 0..MAX_SCAN_DEPTH :
        /\ d \in Within(fs, root_dir, ThisRoot.follow_symlinks, n)
        /\ \A m \in 0..(n - 1) : d \notin Within(fs, root_dir, ThisRoot.follow_symlinks, m)

\* A later pop_front of the same walk yields a depth that is not smaller.
DequeuedInDepthOrder ==
    (pc = "pop" /\ queue # <<>> /\ hist.popped # {} /\ queue' = Tail(queue))
        => depth' >= depth

\* C16: within one root the directories are dequeued in non-decreasing
\* depth order, each directory is enqueued with its minimal depth (the
\* length of the shortest chain of followed entries from the root), and,
\* the visit cap not being hit, the directories dequeued for listing are
\* those whose shortest chain has at most MAX_SCAN_DEPTH entries.
C16_BreadthFirst ==
    /\ [][DequeuedInDepthOrder]_vars
    /\ [](InWalk =>
            /\ \A i \in Indices(queue) :
                    /\ queue[i][1] \in Reach
                    /\ queue[i][2] = MinDepth(queue[i][1])
            /\ \A i, j \in Indices(queue) : i < j => queue[i][2] <= queue[j][2]
            /\ pc = "entry" => depth = MinDepth(dir))
    /\ []((WalkEnded /\ ~hist.capHit) => hist.popped = Reach)

\* A walk has ended that listed a directory which a followed symlink
\* brings nearer to the root than its nesting does, and left out
\* directories beyond the depth cap.
C16_Witness ==
    /\ WalkEnded
    /\ pc = "root"
    /\ hist.depthDropped
    /\ \E d \in hist.popped :
            /\ MinDepth(d) >= 2
            /\ d \notin NestedWithin(fs, root_dir, MinDepth(d))

\* A step of a walk that has hit the visit cap adds nothing to the queue
\* and nothing to the visited set.
NothingAddedAfterCap ==
    (hist.capHit /\ hist'.root = hist.root)
        => /\ visited_dirs' = visited_dirs
           /\ \/ queue' = queue
              \/ queue # <<>> /\ queue' = Tail(queue)

\* C17: after the visit cap has been hit, no further directory is added to
\* the queue or to the visited set of that root, and every directory that
\* was queued at that moment is still dequeued and listed, every SKILL.md
\* in it parsed and recorded.
C17_AfterCap ==
    /\ [][NothingAddedAfterCap]_vars
    /\ []((pc = "root" /\ hist.root # 0 /\ hist.capHit) =>
            /\ queue = <<>>
            /\ hist.queuedAtCap \subseteq hist.popped
            /\ \A d \in hist.queuedAtCap :
                    /\ d \in hist.parsed <=> \E i \in 1..NumEntries(fs, d) :
                            EntryAt(fs, d, i).kind = "file"
                            /\ EntryAt(fs, d, i).name = SKILL_FILENAME
                            /\ ReadDirOk(fs, d)
                    /\ ParseableAt(fs, d) # {} => FoundBy(d))

\* A walk has ended that hit the visit cap while directories were queued,
\* one of them holding a SKILL.md whose record the walk pushed.
C17_Witness ==
    /\ pc = "root"
    /\ hist.root # 0
    /\ hist.capHit
    /\ \E d \in hist.queuedAtCap : FoundBy(d) /\ d \in hist.popped

\* C18: a truncation warning implies a partial result: it is logged for a
\* root only if the walk dropped, because the visited set had reached
\* MAX_SKILLS_DIRS_PER_ROOT, at least one directory that was not yet
\* visited and was within the depth cap.
C18_Original ==
    (hist.root # 0 /\ TruncWarnings(hist.root) > 0) => hist.capDropped # {}

\* s is not empty and has no whitespace at either end.
NonEmptyTrimmed(s) == s # "" /\ s \notin {" ", " alpha "}

\* C19: every record parse_skill_file returns has a non-empty, trimmed name
\* and description, a short description that is absent or non-empty and
\* trimmed, and an interface that is absent or has at least one of display
\* name and short description, each absent or non-empty and trimmed; so
\* display_name() and display_description() are never empty.
C19_RecordFields ==
    /\ fm.skill # None =>
        LET skill == fm.skill[1]
        IN  /\ NonEmptyTrimmed(skill.name)
            /\ NonEmptyTrimmed(skill.description)
            /\ skill.short_description # None
                    => NonEmptyTrimmed(skill.short_description[1])
            /\ skill.interface # None =>
                    LET interface == skill.interface[1]
                    IN  /\ interface.display_name # None
                           \/ interface.short_description # None
                        /\ interface.display_name # None
                                => NonEmptyTrimmed(interface.display_name[1])
                        /\ interface.short_description # None
                                => NonEmptyTrimmed(interface.short_description[1])
    /\ fm.shown # None =>
        /\ NonEmptyTrimmed(fm.shown[1].name)
        /\ NonEmptyTrimmed(fm.shown[1].description)

\* A record was returned and shown for a file whose name is written in
\* blanks, whose short description is blank and whose overlay has a blank
\* display name beside a short description.
C19_Witness ==
    /\ fm.pc = "shown"
    /\ FmLine(2) = "name: ' alpha '"
    /\ \E i \in 1..Len(fm.contents.pieces) : FmLine(i) = "  short-description: ' '"
    /\ fm.overlay = OverlayWith(Some(" "), Some("beta"))
    /\ fm.skill[1].name = "alpha"
    /\ fm.skill[1].short_description = None
    /\ fm.skill[1].interface = Some([display_name |-> None,
                                     short_description |-> Some("beta")])
    /\ fm.shown = Some([name |-> "alpha", description |-> "beta"])

\* What parse_skill_file returns for the file of the call when there is no
\* agents/openai.yaml beside it.
WithoutOverlay ==
    ParseSkillFile([readable |-> fm.readable, contents |-> fm.contents,
                    overlay |-> OverlayAbsent], 1, "User")

\* The overlay of the call is a valid descriptor with a display name or a
\* short description that is not blank.
OverlayFilled ==
    /\ fm.overlay.state = "valid"
    /\ fm.overlay.interface # None
    /\ \E v \in {fm.overlay.interface[1].display_name,
                 fm.overlay.interface[1].short_description} :
            v # None /\ v[1] \notin {"", " "}

\* C20: the state of the overlay descriptor (absent, unreadable, invalid,
\* valid with empty fields, valid) changes neither whether parse_skill_file
\* succeeds nor the name, description, short description, path and scope
\* of the record; it determines the interface only, which is absent except
\* for a valid descriptor with at least one non-empty field.
C20_OverlayFrame ==
    fm.pc \in {"ret", "shown"} =>
        /\ (fm.skill # None) = WithoutOverlay.ok
        /\ fm.err = (IF WithoutOverlay.ok THEN "" ELSE WithoutOverlay.err)
        /\ fm.skill # None =>
            /\ \A k \in {"name", "description", "short_description", "path", "scope"} :
                    fm.skill[1][k] = WithoutOverlay.skill[k]
            /\ fm.skill[1].interface # None <=> OverlayFilled

\* A record was returned, without an interface and with the fields of its
\* front matter, for a file whose overlay cannot be read or parsed.
C20_Witness ==
    /\ fm.pc = "ret"
    /\ fm.overlay.state \in {"invalid", "unreadable"}
    /\ fm.skill # None
    /\ fm.skill[1].interface = None
    /\ fm.skill[1].short_description = Some("Short")

\* The block that extract_frontmatter returned, as serde_yaml reads it.
FmParsed == ParseFrontmatterYaml(fm.result[1])

\* The failure the order of C21 assigns to the file of the call, "" when
\* there is none.
ExpectedFailure ==
    IF ~fm.readable THEN "Read"
    ELSE IF ~(fm.contents.pieces # <<>> /\ FmLine(1) = "---" /\ FmClosers # {})
    THEN "MissingFrontmatter"
    ELSE IF ~FmParsed.ok THEN "InvalidYaml"
    ELSE IF FmParsed.name \in {"", " "} THEN "MissingField(name)"
    ELSE IF FmParsed.description \in {"", " "} THEN "MissingField(description)"
    ELSE ""

\* C21: parse_skill_file reports one failure reason, chosen in a fixed
\* order: Read, else MissingFrontmatter, else InvalidYaml, else
\* MissingField("name"), else MissingField("description"); name is the
\* field reported when both are blank, and load_skill_interface is not
\* called on a file that fails.
C21_FailureOrder ==
    fm.pc \in {"ret", "shown"} =>
        /\ fm.err = ExpectedFailure
        /\ (fm.err = "") = (fm.skill # None)
        /\ fm.err # "" => ~fm.loaded

\* A file whose name and description are both blank, beside a valid
\* overlay, failed with MissingField("name") without the overlay being
\* loaded.
C21_Witness ==
    /\ fm.pc = "ret"
    /\ fm.readable
    /\ fm.result # None
    /\ FmParsed.ok
    /\ FmParsed.name = " "
    /\ FmParsed.description = " "
    /\ fm.overlay = OverlayWith(Some("A Tool"), Some("beta"))
    /\ fm.err = "MissingField(name)"
    /\ ~fm.loaded

\* The entry of the step in progress has a name that starts with a dot.
AtDotEntry == pc = "entry" /\ Entry.name \in DotNames

\* A step at such an entry adds nothing to the queue, to the visited set,
\* to the records or to the log.
DotEntrySkipped ==
    AtDotEntry => UNCHANGED <<queue, visited_dirs, truncated_by_dir_limit, out, log>>

SkillSymlinkIgnored ==
    (pc = "entry" /\ Entry.name = SKILL_FILENAME /\ Entry.kind = "symlink")
        => /\ out' = out
           /\ hist'.parsed = hist.parsed
           /\ \A k \in (Len(log) + 1)..Len(log') : log'[k].kind # "parse"

\* A step of a walk that pushes a record or parses a file is a step at an
\* ordinary file named SKILL.md, and the record is the one of that file.
OnlySkillFilesParsed ==
    (/\ pc = "entry"
     /\ \/ out' # out
        \/ hist'.parsed # hist.parsed
        \/ Len(log') > Len(log) /\ log'[Len(log')].kind = "parse")
        => /\ Entry.kind = "file"
           /\ Entry.name = SKILL_FILENAME
           /\ out' # out => /\ Len(out') = Len(out) + 1
                            /\ out'[Len(out')].path = dir

\* C23: a directory entry named SKILL.md that is a symbolic link never
\* produces a record, under any root and whatever its target is; only an
\* ordinary file whose name is exactly SKILL.md is parsed.
C23_SkillSymlinks ==
    /\ [][SkillSymlinkIgnored]_vars
    /\ [][OnlySkillFilesParsed]_vars

\* The walk of a root that follows symlinks has ended: it listed a
\* directory whose SKILL.md is a symlink to a file that parses, pushed no
\* record for that directory, and listed a file of another name that
\* parses too.
C23_Witness ==
    /\ pc = "root"
    /\ hist.root # 0
    /\ ThisRoot.follow_symlinks
    /\ \E p \in hist.popped : \E e \in Listing(fs, p) :
            /\ e.name = SKILL_FILENAME
            /\ e.kind = "symlink"
            /\ e.to = "file"
            /\ ParseSkillFile(e.file, p, ThisRoot.scope).ok
            /\ ~FoundBy(p)
    /\ FoundDirs # {}

\* C24: a background refresh of the version cache preserves the dismissed
\* version: once dismiss_version(v) has written dismissed_version = v, the
\* file still holds dismissed_version = v after check_for_update wrote its
\* new latest_version, for every interleaving of the reads and writes of
\* the two.
C24_Original ==
    (tasks.wrote # None /\ tasks.later) =>
        /\ version_file # None
        /\ version_file[1].dismissed_version = tasks.wrote

\* C25: is_retryable_stream_error uses the message fallback only for events
\* without codex_error_info: an event with codex_error_info present is
\* retryable exactly when its kind is HttpConnectionFailed,
\* ResponseStreamConnectionFailed, ResponseStreamDisconnected or
\* ResponseTooManyFailedAttempts, whatever its message.
C25_Original ==
    (ev.pc = "ret" /\ ev.event.codex_error_info # None) =>
        (ev.retryable <=> ev.event.codex_error_info[1] \in RetryableKinds)

\* The second call has returned, and neither call logged a truncation.
ReorderedReturn ==
    /\ pc = "done"
    /\ run = 2
    /\ \A k \in 1..Len(log) : log[k].kind # "truncated"
    /\ \A k \in 1..Len(first.log) : first.log[k].kind # "truncated"

\* C26: when no root hits the visit cap, the list load_skills returns is the
\* same, in content and in order, whatever the order in which the entries
\* of each directory are enumerated.
C26_OrderIndependent == ReorderedReturn => out = first.out

\* The two calls found the skills in different orders, two of them of the
\* same scope and name, and returned the same list.
C26_Witness ==
    /\ ReorderedReturn
    /\ raw # first.raw
    /\ out = first.out
    /\ \E i, j \in 1..Len(out) :
        i # j /\ out[i].scope = out[j].scope /\ out[i].name = out[j].name

====
